---- MODULE Spec2Model ----
(***************************************************************************)
(* Model of the simulation state engine (SimulationProvider) of the        *)
(* factory digital-twin dashboard, with the step registry and the flow     *)
(* resolver it is built on.                                                *)
(*                                                                         *)
(* React semantics used throughout: a handler (event handler, timer        *)
(* callback, or the continuation of an awaited fetch) runs to completion,  *)
(* its state updates are batched, and the render it causes commits the     *)
(* effects whose dependencies changed.  One action = one handler together  *)
(* with that commit.  Handlers are operators on a record of the engine's   *)
(* state (the operator State below); Commit runs the two effects of the    *)
(* provider on the handler's result.                                       *)
(***************************************************************************)
EXTENDS Integers, Sequences, FiniteSets, TLC

\* ------------------------------------------------------------------ bounds
MaxAdvances == 2     \* the clock advances at most this many times
MaxInFlight == 2     \* requests in flight at once
MaxCatalog == 3      \* models of a catalog drawn as input
MaxScene == 2        \* objects of a scene drawn as input
MaxFlow == 2         \* entries of a product flow drawn as input
limit == 2           \* useSensorStream({ limit }): readings kept
MaxRequests == 3     \* fetches of the machine metadata started

\* ------------------------------------------------------- program constants
baseDuration == 12

\* One advance of the clock: a little more than the shortest default step.
TimeStep == baseDuration + 2
MaxTime == MaxAdvances * TimeStep

\* ------------------------------------------------------------ null values
NoMachine == <<"<null>">>         \* activeMachineId === null
NoTime == -1                      \* startTimeRef.current === null
NoResult == [null |-> TRUE]       \* realtimeResult === null
NoConfiguration == [null |-> TRUE]\* lastConfiguration === null
NoStep == [null |-> TRUE]         \* resolveMachineStep(...) === null
Undefined == <<"<undefined>">>    \* a property an object lacks, read as text
NoDuration == -1000               \* ... read as a number
NoEvent == [null |-> TRUE]        \* no MessageEvent yet
NoCache == <<"<null>">>           \* machinesCache === null
NoPromise == 0                    \* loadingPromise === null
NoProduct == "<none>"             \* selectedProductId === null
NoCount == -1                     \* goodProduct === null (counts are >= 0)
NoLot == <<"<null>">>             \* conclusionLot === null
NoObject == <<"<null>">>          \* findMatchingObject(...) === null

\* ------------------------------------------------------------- arithmetic
RECURSIVE GCD(_, _)
GCD(a, b) == IF b = 0 THEN a ELSE GCD(b, a % b)

Abs(n) == IF n < 0 THEN -n ELSE n

\* A fraction n/d in lowest terms with a positive denominator.
Frac(n, d) ==
  LET g == GCD(Abs(n), Abs(d))
      s == IF d < 0 THEN -1 ELSE 1
  IN  IF g = 0 THEN <<0, 1>> ELSE <<(s * n) \div g, (s * d) \div g>>

Zero == <<0, 1>>
One == <<1, 1>>

Min(a, b) == IF a < b THEN a ELSE b

\* ------------------------------------------------------------------ text
\* A JavaScript string whose content matters (machine ids, lots) is a
\* sequence of tokens: a token is a blank, a letter, a separator, a number or
\* a whole word without blanks; the names of the machine streams are
\* sequences of characters.
Whitespace == {" "}
Digits == {"0", "1", "2", "3", "4", "5", "6", "7", "8", "9"}

Lower(c) ==
  CASE c = "A" -> "a" [] c = "B" -> "b" [] c = "C" -> "c"
    [] c = "F" -> "f" [] c = "T" -> "t" [] c = "U" -> "u"
    [] c = "W" -> "w" [] OTHER -> c

Upper(c) ==
  CASE c = "a" -> "A" [] c = "b" -> "B" [] c = "c" -> "C"
    [] c = "f" -> "F" [] c = "t" -> "T" [] c = "u" -> "U"
    [] c = "w" -> "W" [] OTHER -> c

RECURSIVE TrimStart(_)
TrimStart(s) ==
  IF s # <<>> /\ Head(s) \in Whitespace THEN TrimStart(Tail(s)) ELSE s

RECURSIVE TrimEnd(_)
TrimEnd(s) ==
  IF s # <<>> /\ s[Len(s)] \in Whitespace
    THEN TrimEnd(SubSeq(s, 1, Len(s) - 1))
    ELSE s

Trim(s) == TrimEnd(TrimStart(s))
ToLowerCase(s) == [i \in 1..Len(s) |-> Lower(s[i])]
ToUpperCase(s) == [i \in 1..Len(s) |-> Upper(s[i])]

\* ------------------------------------------------ simulation-data.ts
\* The model catalog (public/3d-model/models.json), as its list of ids.
ModelsJson == << <<"furnace">>, <<"caster">> >>

\* The catalog the module was loaded with, and the steps it made of it
\* when it was loaded.
VARIABLES models, simulationSteps

\* The normalisation of a model keeps its id.
rawModels == models

\* toTitleCase: separators become blanks, runs of blanks collapse, the text
\* is trimmed and the first letter of every word is upper-cased.
TitleWord(w) ==
  CASE w = "furnace" -> "Furnace" [] w = "caster" -> "Caster"
    [] OTHER -> Upper(w)

RECURSIVE CollapseBlanks(_)
CollapseBlanks(s) ==
  IF Len(s) < 2 THEN s
  ELSE IF s[1] \in Whitespace /\ s[2] \in Whitespace
    THEN CollapseBlanks(Tail(s))
    ELSE <<s[1]>> \o CollapseBlanks(Tail(s))

toTitleCase(text) ==
  LET spaced == [i \in 1..Len(text) |->
                   IF text[i] \in {"-", "_"} THEN " " ELSE text[i]]
      words == Trim(CollapseBlanks(spaced))
  IN  [i \in 1..Len(words) |->
         IF i = 1 \/ words[i - 1] \in Whitespace
           THEN TitleWord(words[i])
           ELSE words[i]]

stepsOfCatalog(catalog) ==
  [i \in 1..Len(catalog) |->
     LET occurrence == Cardinality({j \in 1..i : catalog[j] = catalog[i]})
         baseName == IF catalog[i] # <<>>
                       THEN toTitleCase(catalog[i])
                       ELSE <<"Step", " ", ToString(i)>>
     IN  [id |-> IF occurrence = 1
                   THEN catalog[i]
                   ELSE catalog[i] \o <<"-", ToString(occurrence)>>,
          baseId |-> catalog[i],
          name |-> IF occurrence = 1
                     THEN baseName
                     ELSE baseName \o <<" ", ToString(occurrence)>>,
          duration |-> baseDuration + ((i - 1) % 4) * 4,
          occurrence |-> occurrence]]

\* export const simulationSteps = rawModels.map(...)
Loaded(catalogs) ==
  /\ models \in catalogs
  /\ simulationSteps = stepsOfCatalog(rawModels)

\* Both registries are plain objects ({} filled by reduce): a key that no
\* step defines is looked up on Object.prototype, whose members are
\* functions, objects without own enumerable property.
InheritedKeys == { <<"constructor">>, <<"toString">> }
ObjectMember == [f \in {} |-> TRUE]

\* machineRegistry[id]: a later step with the same id overwrites an earlier.
machineRegistry(id) ==
  LET hits == {i \in 1..Len(simulationSteps) : simulationSteps[i].id = id}
  IN  IF hits # {}
        THEN simulationSteps[CHOOSE i \in hits : \A j \in hits : j <= i]
      ELSE IF id \in InheritedKeys THEN ObjectMember
      ELSE NoStep

\* baseMachineRegistry[baseId]: the steps of that base id, in catalog order.
baseMachineRegistry(baseId) ==
  SelectSeq(simulationSteps, LAMBDA st : st.baseId = baseId)

\* cloneStep(step, {name, duration}) = {...step, name, duration} with
\* name = stepDef.name ?? base.name, duration = stepDef.duration ??
\* base.duration; a property the base lacks is undefined.
cloneStep(step, stepDef) ==
  [f \in DOMAIN step \cup {"name", "duration"} |->
     CASE f = "name" ->
            IF "name" \in DOMAIN stepDef THEN stepDef.name
            ELSE IF "name" \in DOMAIN step THEN step.name
            ELSE Undefined
       [] f = "duration" ->
            IF "duration" \in DOMAIN stepDef THEN stepDef.duration
            ELSE IF "duration" \in DOMAIN step THEN step.duration
            ELSE NoDuration
       [] OTHER -> step[f]]

resolveMachineStep(machineId) ==
  LET direct == machineRegistry(machineId)
      baseCandidates == baseMachineRegistry(machineId)
  IN  IF direct # NoStep THEN direct
      ELSE IF Len(baseCandidates) > 0 THEN baseCandidates[1]
      ELSE NoStep

deriveStepsFromFlow(flowDefinition) ==
  LET mapped == [i \in 1..Len(flowDefinition.flow) |->
                   LET stepDef == flowDefinition.flow[i]
                       base == resolveMachineStep(stepDef.machineId)
                   IN  IF base = NoStep THEN NoStep
                       ELSE cloneStep(base, stepDef)]
  IN  SelectSeq(mapped, LAMBDA st : st # NoStep)

RECURSIVE SumDurations(_)
SumDurations(steps) ==
  IF steps = <<>> THEN 0 ELSE Head(steps).duration + SumDurations(Tail(steps))

\* totalDuration = currentSteps.reduce((acc, item) => acc + item.duration, 0)
totalDurationOf(steps) == SumDurations(steps)

StepIds(steps) == {steps[i].id : i \in 1..Len(steps)}

\* --------------------------------------------------- collaborators' data
\* /simulation-flows.json.  P1 resolves to the caster twice, the first time
\* with a duration override; "ghost" is an unknown machine id, so P2
\* resolves to nothing.
FlowP1 ==
  [productId |-> "P1",
   flow |-> << [machineId |-> <<"caster">>, duration |-> 10],
               [machineId |-> <<"ghost">>],
               [machineId |-> <<"caster">>] >>]

FlowP2 == [productId |-> "P2", flow |-> << [machineId |-> <<"ghost">>] >>]

FlowFiles == { <<FlowP1, FlowP2>> }

\* /simulation-results.json
ResultFiles == { [lot |-> <<"R">>, status |-> "finish", goodProduct |-> 28] }

\* /product-data.json
PollFiles ==
  { <<>>,
    << [lot |-> <<"A">>, status |-> "process",
        activeMachineId |-> <<" ", "caster">>] >>,
    << [status |-> "process", activeMachineId |-> <<"press">>] >>,
    << [lot |-> <<"A">>, status |-> "process", activeMachineId |-> <<" ">>],
       [lot |-> <<" ", "b">>, status |-> "finish"] >>,
    << [lot |-> <<"A", " ">>, status |-> "finish",
        goodProduct |-> [tenths |-> 70]] >> }

\* A response: the request failed (rejected, or response.ok false), or it
\* delivered one of the files.
Failed == [ok |-> FALSE]
Responses(files) == {Failed} \cup {[ok |-> TRUE, json |-> f] : f \in files}

\* The forms the configurator submits (general.lot only).
Forms == { [general |-> [lot |-> <<"B", " ">>]] }
ProductIds == {"P1", "P2", "PX"}

\* ------------------------------------------------------------------ state
VARIABLES
  isSimulationMode, simulationVariant, currentSteps, activeMachineId,
  elapsedSeconds, stepProgress, productFlows, flowsLoading,
  selectedProductId, lastConfiguration, isConfiguratorOpen, realtimeResult,
  startTimeRef, sequenceIntervalRef, realtimeIntervalRef, elapsedIntervalRef,
  hasInitialisedFlowsRef,
  now,             \* performance.now(), in seconds
  flowsRequest,    \* the fetch of loadFlows is in flight
  tickFetchLive,   \* fetches awaited by tick() calls of the current scheduler
  tickFetchStale,  \* ... of a scheduler whose effect has been cleaned up
  pollLive,        \* fetches awaited by pollRealtime() of the current scheduler
  pollStale,       \* ... of a scheduler whose effect has been cleaned up
  resultFetch,     \* fetches awaited by the running->stopped effect
  resultPushes,    \* history: RunResults assigned to result since the last start
  resultFetches,   \* history: fetches of the result file since the last start
  lastOp,          \* history: the handler that ran last
  isValidationOpen, \* SimulationResultModal
  goodProduct,      \* SimulationValidationModal: the text of the field
  viewer,           \* ProductDataViewerModal: its state and pending request
  database,         \* the rows /api/products serves
  posts,            \* history: conclusions the persistence API accepted
  machineName,      \* the external name given to findMatchingObject
  machineObjects,   \* the objects of the scene, in the order of the Map
  matched,          \* what findMatchingObject returned
  sensorEvent,      \* useSensorStream: the payload of the last "reading" event
  readings,         \* useSensorStream: the readings state
  machinesCache,    \* lib/machines
  loadingPromise,   \* lib/machines: the request a non-forced call shares
  requests,         \* the fetches of loadMachines in flight
  issued,           \* history: fetches loadMachines has started
  returned          \* history: what the last loadMachines call returned

vars ==
  << models, simulationSteps, isSimulationMode, simulationVariant,
     currentSteps, activeMachineId,
     elapsedSeconds, stepProgress, productFlows, flowsLoading,
     selectedProductId, lastConfiguration, isConfiguratorOpen, realtimeResult,
     startTimeRef, sequenceIntervalRef, realtimeIntervalRef,
     elapsedIntervalRef, hasInitialisedFlowsRef, now, flowsRequest,
     tickFetchLive, tickFetchStale, pollLive, pollStale, resultFetch,
     resultPushes, resultFetches, lastOp, isValidationOpen, goodProduct,
     viewer, database, posts, machineName, machineObjects, matched,
     sensorEvent, readings, machinesCache, loadingPromise, requests, issued,
     returned >>

streamVars == << sensorEvent, readings >>
loaderVars == << machinesCache, loadingPromise, requests, issued, returned >>

\* The engine's state as one record; depsFresh is set by a handler that
\* stores a newly built array or object in a dependency of the scheduler
\* effect (currentSteps through computeState, lastConfiguration).
State ==
  [isSimulationMode |-> isSimulationMode,
   simulationVariant |-> simulationVariant,
   currentSteps |-> currentSteps,
   activeMachineId |-> activeMachineId,
   elapsedSeconds |-> elapsedSeconds,
   stepProgress |-> stepProgress,
   productFlows |-> productFlows,
   flowsLoading |-> flowsLoading,
   selectedProductId |-> selectedProductId,
   lastConfiguration |-> lastConfiguration,
   isConfiguratorOpen |-> isConfiguratorOpen,
   realtimeResult |-> realtimeResult,
   startTimeRef |-> startTimeRef,
   sequenceIntervalRef |-> sequenceIntervalRef,
   realtimeIntervalRef |-> realtimeIntervalRef,
   elapsedIntervalRef |-> elapsedIntervalRef,
   hasInitialisedFlowsRef |-> hasInitialisedFlowsRef,
   flowsRequest |-> flowsRequest,
   tickFetchLive |-> tickFetchLive,
   tickFetchStale |-> tickFetchStale,
   pollLive |-> pollLive,
   pollStale |-> pollStale,
   resultFetch |-> resultFetch,
   resultPushes |-> resultPushes,
   resultFetches |-> resultFetches,
   depsFresh |-> FALSE,
   rendered |-> FALSE]

InFlight(s) ==
  s.tickFetchLive + s.tickFetchStale + s.pollLive + s.pollStale + s.resultFetch

\* ---------------------------------------------- SimulationValidationModal
\* String(value) of a count, as the text of an input.
String(value) == << ToString(value) >>

\* The initial prop SimulationResultModal builds from its result.
initialOf(result) == [goodProduct |-> result.goodProduct]

\* The prefill effect, isOpen being true.
prefill(initial) ==
  IF initial.goodProduct = NoCount THEN <<>> ELSE String(initial.goodProduct)

\* The text of the field once the provider has reached state s.  Without a
\* result SimulationResultModal renders nothing and the validation modal,
\* unmounted, loses its state; each render of SimulationResultModal passes
\* a new initial object, on which the prefill effect of an open validation
\* modal runs again.
fieldAfter(s) ==
  IF s.realtimeResult = NoResult THEN <<>>
  ELSE IF isValidationOpen /\ s.rendered
    THEN prefill(initialOf(s.realtimeResult))
  ELSE goodProduct

\* The next state is s, reached by handler op.
Becomes(s, op) ==
  /\ InFlight(s) <= MaxInFlight
  /\ isSimulationMode' = s.isSimulationMode
  /\ simulationVariant' = s.simulationVariant
  /\ currentSteps' = s.currentSteps
  /\ activeMachineId' = s.activeMachineId
  /\ elapsedSeconds' = s.elapsedSeconds
  /\ stepProgress' = s.stepProgress
  /\ productFlows' = s.productFlows
  /\ flowsLoading' = s.flowsLoading
  /\ selectedProductId' = s.selectedProductId
  /\ lastConfiguration' = s.lastConfiguration
  /\ isConfiguratorOpen' = s.isConfiguratorOpen
  /\ realtimeResult' = s.realtimeResult
  /\ startTimeRef' = s.startTimeRef
  /\ sequenceIntervalRef' = s.sequenceIntervalRef
  /\ realtimeIntervalRef' = s.realtimeIntervalRef
  /\ elapsedIntervalRef' = s.elapsedIntervalRef
  /\ hasInitialisedFlowsRef' = s.hasInitialisedFlowsRef
  /\ flowsRequest' = s.flowsRequest
  /\ tickFetchLive' = s.tickFetchLive
  /\ tickFetchStale' = s.tickFetchStale
  /\ pollLive' = s.pollLive
  /\ pollStale' = s.pollStale
  /\ resultFetch' = s.resultFetch
  /\ resultPushes' = s.resultPushes
  /\ resultFetches' = s.resultFetches
  /\ lastOp' = op
  /\ now' = now
  /\ models' = models
  /\ simulationSteps' = simulationSteps
  /\ isValidationOpen' = isValidationOpen
  /\ goodProduct' = fieldAfter(s)
  /\ UNCHANGED << viewer, database, posts,
                  machineName, machineObjects, matched,
                  streamVars, loaderVars >>

\* ------------------------------------------------- SimulationProvider
\* The history counters count 0, 1, and "more than once".
Bump(n) == IF n = 0 THEN 1 ELSE 1 + 1

\* setRealtimeResult(r), counting the RunResults pushed.
setRealtimeResult(s, r) ==
  [s EXCEPT !.realtimeResult = r,
            !.resultPushes = IF r # NoResult THEN Bump(@) ELSE @,
            !.rendered = @ \/ r # NoResult]

\* Mutant: progress is measured from the start of the sequence.
computeStateOver_NoOffset(steps, s, elapsed) ==
  LET totalDuration == totalDurationOf(steps)
      accumulated(i) == SumDurations(SubSeq(steps, 1, i))
  IN  IF totalDuration <= 0 \/ Len(steps) = 0
        THEN [s EXCEPT !.activeMachineId = NoMachine,
                       !.stepProgress = Zero,
                       !.elapsedSeconds = 0]
        ELSE
          LET cycle == elapsed % totalDuration
              hits == {i \in 1..Len(steps) : cycle < accumulated(i)}
              i == CHOOSE k \in hits : \A j \in hits : k <= j
          IN  [s EXCEPT !.activeMachineId = steps[i].id,
                        !.stepProgress = Frac(cycle, steps[i].duration),
                        !.elapsedSeconds = elapsed]

\* Mutant: a step's window includes its end.
computeStateOver_ClosedWindow(steps, s, elapsed) ==
  LET totalDuration == totalDurationOf(steps)
      accumulated(i) == SumDurations(SubSeq(steps, 1, i))
  IN  IF totalDuration <= 0 \/ Len(steps) = 0
        THEN [s EXCEPT !.activeMachineId = NoMachine,
                       !.stepProgress = Zero,
                       !.elapsedSeconds = 0]
        ELSE
          LET cycle == elapsed % totalDuration
              hits == {i \in 1..Len(steps) : cycle <= accumulated(i)}
              i == CHOOSE k \in hits : \A j \in hits : k <= j
          IN  [s EXCEPT
                 !.activeMachineId = steps[i].id,
                 !.stepProgress =
                    Frac(cycle - accumulated(i - 1), steps[i].duration),
                 !.elapsedSeconds = elapsed]

\* The body of computeState for the closure's currentSteps and totalDuration.
computeStateOver(steps, s, elapsed) ==
  LET totalDuration == totalDurationOf(steps)
      accumulated(i) == SumDurations(SubSeq(steps, 1, i))
  IN  IF totalDuration <= 0 \/ Len(steps) = 0
        THEN [s EXCEPT !.activeMachineId = NoMachine,
                       !.stepProgress = Zero,
                       !.elapsedSeconds = 0]
        ELSE
          LET cycle == elapsed % totalDuration
              hits == {i \in 1..Len(steps) : cycle < accumulated(i)}
          IN  IF hits # {}
                THEN
                  LET i == CHOOSE k \in hits : \A j \in hits : k <= j
                  IN  [s EXCEPT
                         !.activeMachineId = steps[i].id,
                         !.stepProgress =
                            Frac(cycle - accumulated(i - 1), steps[i].duration),
                         !.elapsedSeconds = elapsed]
                ELSE [s EXCEPT !.activeMachineId = steps[Len(steps)].id,
                               !.stepProgress = One,
                               !.elapsedSeconds = elapsed]

\* Mutant: the walk runs over the registry's default sequence.
computeState_OverRegistry(s, elapsed) ==
  computeStateOver(simulationSteps, s, elapsed)

computeState(s, elapsed) == computeStateOver(s.currentSteps, s, elapsed)

clearTimers(s) ==
  [s EXCEPT !.sequenceIntervalRef = FALSE,
            !.realtimeIntervalRef = FALSE,
            !.elapsedIntervalRef = FALSE]

startSimulation(s) ==
  [setRealtimeResult(s, NoResult) EXCEPT
     !.startTimeRef = now,
     !.isSimulationMode = TRUE,
     !.resultPushes = 0,
     !.resultFetches = 0]

\* Mutant: the result is preserved whatever the argument.
stopSimulation_KeepResult(s, preserveRealtimeResult) ==
  [clearTimers(s) EXCEPT !.isSimulationMode = FALSE,
                         !.startTimeRef = NoTime,
                         !.activeMachineId = NoMachine,
                         !.stepProgress = Zero,
                         !.elapsedSeconds = 0,
                         !.isConfiguratorOpen = FALSE]

\* Mutant: the result is cleared whatever the argument.
stopSimulation_DropResult(s, preserveRealtimeResult) ==
  setRealtimeResult(
    [clearTimers(s) EXCEPT !.isSimulationMode = FALSE,
                           !.startTimeRef = NoTime,
                           !.activeMachineId = NoMachine,
                           !.stepProgress = Zero,
                           !.elapsedSeconds = 0,
                           !.isConfiguratorOpen = FALSE],
    NoResult)

\* Mutant: the call toggles the mode, as the toolbar's button does.
stopSimulation_Toggle(s, preserveRealtimeResult) ==
  [clearTimers(s) EXCEPT !.isSimulationMode = ~s.isSimulationMode,
                         !.startTimeRef = NoTime,
                         !.activeMachineId = NoMachine,
                         !.stepProgress = Zero,
                         !.elapsedSeconds = 0,
                         !.isConfiguratorOpen = FALSE]

stopSimulation(s, preserveRealtimeResult) ==
  LET t == [clearTimers(s) EXCEPT !.isSimulationMode = FALSE,
                                  !.startTimeRef = NoTime,
                                  !.activeMachineId = NoMachine,
                                  !.stepProgress = Zero,
                                  !.elapsedSeconds = 0,
                                  !.isConfiguratorOpen = FALSE]
  IN  IF ~preserveRealtimeResult THEN setRealtimeResult(t, NoResult) ELSE t

FindFlow(flows, productId) ==
  LET hits == {i \in 1..Len(flows) : flows[i].productId = productId}
  IN  IF hits = {} THEN NoStep
      ELSE flows[CHOOSE i \in hits : \A j \in hits : i <= j]

\* Mutant: a flow that resolves to no step starts the default sequence.
applyProductFlow_Fallback(s, productId, formValues) ==
  LET flowDefinition == FindFlow(s.productFlows, productId)
  IN  IF flowDefinition = NoStep THEN s
      ELSE
        LET derivedSteps == deriveStepsFromFlow(flowDefinition)
            steps == IF Len(derivedSteps) = 0 THEN simulationSteps
                     ELSE derivedSteps
        IN  startSimulation(
              [s EXCEPT !.currentSteps = steps,
                        !.depsFresh = TRUE,
                        !.selectedProductId = flowDefinition.productId,
                        !.lastConfiguration = formValues,
                        !.isConfiguratorOpen = FALSE,
                        !.activeMachineId = NoMachine,
                        !.stepProgress = Zero,
                        !.elapsedSeconds = 0])

applyProductFlow(s, productId, formValues) ==
  LET flowDefinition == FindFlow(s.productFlows, productId)
  IN  IF flowDefinition = NoStep THEN s
      ELSE
        LET derivedSteps == deriveStepsFromFlow(flowDefinition)
        IN  IF Len(derivedSteps) = 0 THEN s
            ELSE startSimulation(
                   [s EXCEPT !.currentSteps = derivedSteps,
                             !.depsFresh = TRUE,
                             !.selectedProductId = flowDefinition.productId,
                             !.lastConfiguration = formValues,
                             !.isConfiguratorOpen = FALSE,
                             !.activeMachineId = NoMachine,
                             !.stepProgress = Zero,
                             !.elapsedSeconds = 0])

\* Mutant: the form is stored before the flow is looked up.
submitConfiguration_StoreFirst(s, productId, formValues) ==
  applyProductFlow([s EXCEPT !.lastConfiguration = formValues],
                   productId, formValues)

submitConfiguration(s, productId, formValues) ==
  applyProductFlow(s, productId, formValues)

handleVariantChange(s, variant) == [s EXCEPT !.simulationVariant = variant]

dismissRealtimeResult(s) == setRealtimeResult(s, NoResult)

\* Mutant: the start follows the selected variant, running or not.
requestSimulationStart_AnyVariant(s) ==
  IF s.simulationVariant = "sequence"
    THEN IF s.flowsLoading THEN s
         ELSE IF Len(s.productFlows) = 0
           THEN startSimulation(
                  [s EXCEPT !.currentSteps = simulationSteps,
                            !.selectedProductId = NoProduct,
                            !.lastConfiguration = NoConfiguration])
         ELSE [s EXCEPT !.isConfiguratorOpen = TRUE]
    ELSE startSimulation(s)

requestSimulationStart(s) ==
  LET effectiveVariant ==
        IF s.isSimulationMode THEN s.simulationVariant ELSE "sequence"
      t == IF ~s.isSimulationMode /\ s.simulationVariant = "realtime"
             THEN [s EXCEPT !.simulationVariant = "sequence"]
             ELSE s
  IN  IF effectiveVariant = "sequence"
        THEN IF s.flowsLoading THEN t
             ELSE IF Len(s.productFlows) = 0
               THEN startSimulation(
                      [t EXCEPT !.currentSteps = simulationSteps,
                                !.selectedProductId = NoProduct,
                                !.lastConfiguration = NoConfiguration])
             ELSE [t EXCEPT !.isConfiguratorOpen = TRUE]
        ELSE startSimulation(t)

\* The continuation of loadFlows after its fetch.
loadFlows(s, resp) ==
  LET t == [s EXCEPT !.flowsRequest = FALSE, !.flowsLoading = FALSE]
  IN  IF ~resp.ok
        THEN [t EXCEPT !.productFlows = <<>>]
        ELSE
          LET normalized == resp.json
              u == [t EXCEPT !.productFlows = normalized]
          IN  IF ~s.hasInitialisedFlowsRef /\ Len(normalized) > 0
                THEN
                  LET first == normalized[1]
                      derived == deriveStepsFromFlow(first)
                      v == [u EXCEPT !.hasInitialisedFlowsRef = TRUE,
                                     !.selectedProductId = first.productId]
                  IN  IF Len(derived) > 0
                        THEN [v EXCEPT !.currentSteps = derived,
                                       !.depsFresh = TRUE]
                        ELSE v
                ELSE u

\* The RunResult built from /simulation-results.json (by tick and by the
\* running->stopped effect).
resultOfJson(json) ==
  [lot |-> IF "lot" \in DOMAIN json THEN json.lot ELSE <<"-">>,
   status |-> IF "status" \in DOMAIN json /\ json.status = "finish"
                THEN "finish" ELSE "process",
   goodProduct |-> IF "goodProduct" \in DOMAIN json
                     THEN json.goodProduct ELSE NoCount]

\* Mutant: the sequence loops, no termination branch.
tick_Loop(s) ==
  IF s.startTimeRef = NoTime THEN s
  ELSE computeState(s, now - s.startTimeRef)

\* tick(), up to its await.
tick(s) ==
  IF s.startTimeRef = NoTime THEN s
  ELSE
    LET elapsed == now - s.startTimeRef
        totalDuration == totalDurationOf(s.currentSteps)
    IN  IF totalDuration > 0 /\ elapsed >= totalDuration
          THEN [s EXCEPT
                  !.activeMachineId =
                     IF Len(s.currentSteps) > 0
                       THEN s.currentSteps[Len(s.currentSteps)].id
                       ELSE NoMachine,
                  !.stepProgress = One,
                  !.elapsedSeconds = totalDuration,
                  !.tickFetchLive = @ + 1,
                  !.resultFetches = Bump(@)]
          ELSE computeState(s, elapsed)

\* tick(), from the completion of its fetch: no check of cancelled here.
tickResume(s, resp) ==
  LET t == IF resp.ok THEN setRealtimeResult(s, resultOfJson(resp.json)) ELSE s
  IN  [clearTimers(t) EXCEPT !.startTimeRef = NoTime,
                             !.isSimulationMode = FALSE]

updateElapsed(s) ==
  IF s.startTimeRef = NoTime THEN s
  ELSE [s EXCEPT !.elapsedSeconds = now - s.startTimeRef]

sanitizeLot(r) ==
  IF "lot" \in DOMAIN r THEN ToLowerCase(Trim(r.lot)) ELSE <<>>

expectedLot(s) ==
  IF s.lastConfiguration = NoConfiguration THEN <<>>
  ELSE sanitizeLot(s.lastConfiguration.general)

\* The values of product-data.json: a number is [tenths |-> n] for n / 10,
\* a string is [text |-> its characters]; a field a record lacks reads
\* as null.
Null == [null |-> TRUE]
FieldOf(record, f) == IF f \in DOMAIN record THEN record[f] ELSE Null

DigitValue(c) == CHOOSE d \in 0..9 : ToString(d) = c

RECURSIVE DigitPrefix(_)
DigitPrefix(s) ==
  IF s # <<>> /\ Head(s) \in Digits
    THEN <<Head(s)>> \o DigitPrefix(Tail(s))
    ELSE <<>>

RECURSIVE DigitsValue(_)
DigitsValue(s) ==
  IF s = <<>> THEN 0
  ELSE 10 * DigitsValue(SubSeq(s, 1, Len(s) - 1)) + DigitValue(s[Len(s)])

\* Number.parseInt(text, 10), NoCount for NaN: leading blanks are skipped,
\* a sign is read, then the longest run of digits.
parseInt(text) ==
  LET t == TrimStart(text)
      signed == t # <<>> /\ Head(t) \in {"-", "+"}
      digits == DigitPrefix(IF signed THEN Tail(t) ELSE t)
  IN  IF digits = <<>> THEN NoCount
      ELSE IF signed /\ Head(t) = "-" THEN 0 - DigitsValue(digits)
      ELSE DigitsValue(digits)

\* Math.round(n / 10) = floor(n / 10 + 1/2)
MathRound(tenths) == (tenths + 5) \div 10

\* `${value}` for a number that is not negative
NumberText(tenths) ==
  IF tenths % 10 = 0 THEN << ToString(tenths \div 10) >>
  ELSE << ToString(tenths \div 10), ".", ToString(tenths % 10) >>

\* parseCount(value), NoCount for null
parseCount(value) ==
  IF "tenths" \in DOMAIN value THEN MathRound(value.tenths)
  ELSE IF "text" \in DOMAIN value THEN parseInt(value.text)
  ELSE NoCount

\* null for null
parseOperationHour(value) ==
  IF "tenths" \in DOMAIN value
    THEN NumberText(value.tenths)
           \o <<" ", IF value.tenths = 10 THEN "hour" ELSE "hours">>
  ELSE IF "text" \in DOMAIN value /\ Len(Trim(value.text)) > 0
    THEN Trim(value.text)
  ELSE Null

\* pollRealtime(), up to its await.
pollRealtime(s) == [s EXCEPT !.pollLive = @ + 1]

\* Mutant: the record is always the first one.
selectRecord_First(s, entries) == entries[1]

\* const record = match ?? entries[0], for a non-empty entries
selectRecord(s, entries) ==
  LET hits == {i \in 1..Len(entries) : sanitizeLot(entries[i]) = expectedLot(s)}
  IN  IF Len(expectedLot(s)) > 0 /\ hits # {}
        THEN entries[CHOOSE i \in hits : \A j \in hits : i <= j]
        ELSE entries[1]

statusOf(record) ==
  IF "status" \in DOMAIN record /\ record.status = "finish"
    THEN "finish" ELSE "process"

\* Mutant: a failed poll ends the run.
pollResume_FatalFailure(s, resp) ==
  IF ~resp.ok
    THEN [clearTimers(s) EXCEPT !.activeMachineId = NoMachine,
                                !.stepProgress = Zero,
                                !.startTimeRef = NoTime,
                                !.isSimulationMode = FALSE]
    ELSE s

\* Mutant: a record in process always counts as a machine at work.
reportProcess_AlwaysOne(s, record) ==
  [s EXCEPT !.activeMachineId =
               IF "activeMachineId" \in DOMAIN record
                 THEN Trim(record.activeMachineId) ELSE NoMachine,
            !.stepProgress = One]

\* pollRealtime(), for a record whose status is not finish.
reportProcess(s, record) ==
  LET activeId ==
        IF "activeMachineId" \in DOMAIN record
           /\ Len(Trim(record.activeMachineId)) > 0
          THEN Trim(record.activeMachineId)
          ELSE NoMachine
  IN  [s EXCEPT !.activeMachineId = activeId,
                !.stepProgress = IF activeId # NoMachine THEN One ELSE Zero]

\* pollRealtime(), from the completion of its fetch, cancelled being false.
pollResume(s, resp) ==
  IF ~resp.ok
    THEN [s EXCEPT !.activeMachineId = NoMachine, !.stepProgress = Zero]
  ELSE
    LET entries == resp.json
    IN  IF Len(entries) = 0
          THEN [s EXCEPT !.activeMachineId = NoMachine, !.stepProgress = Zero]
        ELSE
          LET record == selectRecord(s, entries)
              status == statusOf(record)
          IN  IF status = "finish"
                THEN
                  LET result ==
                        [lot |-> IF "lot" \in DOMAIN record
                                    /\ Len(Trim(record.lot)) > 0
                                   THEN Trim(record.lot)
                                   ELSE IF Len(expectedLot(s)) > 0
                                     THEN ToUpperCase(expectedLot(s))
                                     ELSE <<"-">>,
                         status |-> status,
                         operationHour |->
                           parseOperationHour(FieldOf(record, "operationHour")),
                         goodProduct |->
                           parseCount(FieldOf(record, "goodProduct")),
                         defectProduct |->
                           parseCount(FieldOf(record, "defectProduct"))]
                  IN  [clearTimers(setRealtimeResult(s, result)) EXCEPT
                         !.startTimeRef = NoTime,
                         !.activeMachineId = NoMachine,
                         !.stepProgress = Zero,
                         !.elapsedSeconds = 0,
                         !.isSimulationMode = FALSE]
                ELSE reportProcess(s, record)

\* Mutant: the cleanup leaves the timers registered.
schedulerCleanup_KeepTimers(wasRunning, s) ==
  [s EXCEPT
     !.tickFetchStale = @ + s.tickFetchLive, !.tickFetchLive = 0,
     !.pollStale = @ + s.pollLive, !.pollLive = 0]

\* Mutant: the cleanup does not set cancelled.
schedulerCleanup_NoCancel(wasRunning, s) ==
  IF wasRunning THEN clearTimers(s) ELSE s

\* The cleanup of the scheduler effect: cancelled = true for the callbacks
\* of the run being cleaned up and, when that run took a scheduler branch
\* (wasRunning), stopAllTimers().
schedulerCleanup(wasRunning, s) ==
  [(IF wasRunning THEN clearTimers(s) ELSE s) EXCEPT
     !.tickFetchStale = @ + s.tickFetchLive, !.tickFetchLive = 0,
     !.pollStale = @ + s.pollLive, !.pollLive = 0]

\* Mutant: the effect leaves activeMachineId as it is.
schedulerReset_KeepActive(s) ==
  [s EXCEPT !.stepProgress = Zero, !.elapsedSeconds = 0]

\* The reset both branches of the scheduler effect start with.
schedulerReset(s) ==
  [s EXCEPT !.activeMachineId = NoMachine,
            !.stepProgress = Zero,
            !.elapsedSeconds = 0]

\* The scheduler effect: the cleanup of its previous run, then its body.
schedulerEffect(wasRunning, s) ==
  LET c == schedulerCleanup(wasRunning, s)
      r == schedulerReset(c)
  IN  IF ~s.isSimulationMode
        THEN [clearTimers(r) EXCEPT !.startTimeRef = NoTime]
      ELSE
        LET b == [r EXCEPT !.startTimeRef = now]
        IN  IF s.simulationVariant = "sequence"
              THEN [tick(b) EXCEPT !.sequenceIntervalRef = TRUE]
              ELSE [pollRealtime(
                      [updateElapsed(b) EXCEPT !.elapsedIntervalRef = TRUE])
                    EXCEPT !.realtimeIntervalRef = TRUE]

\* The running->stopped effect, up to the await of its fetch.
stoppedEffect(prev, s) ==
  IF prev /\ ~s.isSimulationMode
    THEN [s EXCEPT !.resultFetch = @ + 1, !.resultFetches = Bump(@)]
    ELSE s

\* The running->stopped effect, from the completion of its fetch.
stoppedResume(s, resp) ==
  IF resp.ok THEN setRealtimeResult(s, resultOfJson(resp.json)) ELSE s

\* The values of the provider's useState hooks: a handler that changes one
\* of them makes the provider and the components it renders render again.
ReactState(s) ==
  << s.isSimulationMode, s.simulationVariant, s.currentSteps,
     s.activeMachineId, s.elapsedSeconds, s.stepProgress, s.productFlows,
     s.flowsLoading, s.selectedProductId, s.lastConfiguration,
     s.isConfiguratorOpen, s.realtimeResult >>

\* Mutant: simulationVariant is not a dependency of the scheduler effect.
Commit_NoVariantDep(old, s) ==
  LET rerun == \/ old.isSimulationMode # s.isSimulationMode
               \/ old.currentSteps # s.currentSteps
               \/ old.lastConfiguration # s.lastConfiguration
               \/ s.depsFresh
      t == IF rerun THEN schedulerEffect(old.isSimulationMode, s) ELSE s
  IN  [stoppedEffect(old.isSimulationMode, t) EXCEPT
         !.depsFresh = FALSE,
         !.rendered = \/ s.rendered
                      \/ s.depsFresh
                      \/ ReactState(s) # ReactState(old)
                      \/ ReactState(t) # ReactState(s)]

\* The render after a handler took the state from old to s: the scheduler
\* effect runs when one of its dependencies changed, then the
\* running->stopped effect.
Commit(old, s) ==
  LET rerun == \/ old.isSimulationMode # s.isSimulationMode
               \/ old.simulationVariant # s.simulationVariant
               \/ old.currentSteps # s.currentSteps
               \/ old.lastConfiguration # s.lastConfiguration
               \/ s.depsFresh
      t == IF rerun THEN schedulerEffect(old.isSimulationMode, s) ELSE s
  IN  [stoppedEffect(old.isSimulationMode, t) EXCEPT
         !.depsFresh = FALSE,
         !.rendered = \/ s.rendered
                      \/ s.depsFresh
                      \/ ReactState(s) # ReactState(old)
                      \/ ReactState(t) # ReactState(s)]

\* ------------------------------------------------- SimulationResultModal
\* What SimulationResultModal shows for these props and this state.
SimulationResultModal(isOpen, result, validationOpen) ==
  IF result = NoResult THEN {}
  ELSE (IF isOpen THEN {"Report"} ELSE {})
         \cup (IF validationOpen THEN {"Validation"} ELSE {})

\* Mutant: the provider opens the report only when no run is underway.
Shown_WhenIdle(s, validationOpen) ==
  SimulationResultModal(s.realtimeResult # NoResult /\ ~s.isSimulationMode,
                        s.realtimeResult, validationOpen)

\* The provider's render of SimulationResultModal.
Shown(s, validationOpen) ==
  SimulationResultModal(s.realtimeResult # NoResult, s.realtimeResult,
                        validationOpen)

\* The texts a user types into the field.
FieldTexts == { <<>>, <<"30">> }

\* ------------------------------------------------- ProductDataViewerModal
\* The rows of the products table.
ProductRows ==
  << [lot |-> <<"L1">>, status |-> "completed", isConclusion |-> FALSE],
     [lot |-> <<"L2">>, status |-> "completed", isConclusion |-> FALSE] >>

\* The component before it is opened.  request is the position of its one
\* asynchronous call: none, the load of the open effect, the POST of a
\* conclusion, the reload after an accepted POST.
ViewerClosed ==
  [isOpen |-> FALSE,
   products |-> <<>>,
   showConclusionModal |-> FALSE,
   conclusionLot |-> NoLot,
   isSubmittingConclusion |-> FALSE,
   showValidationModal |-> FALSE,
   isValidating |-> FALSE,
   request |-> "none"]

\* list.find(p => status is completed && !p.isConclusion), 0 for none
pendingConclusion(list) ==
  LET hits == {i \in 1..Len(list) :
                 list[i].status = "completed" /\ ~list[i].isConclusion}
  IN  IF hits = {} THEN 0 ELSE CHOOSE i \in hits : \A j \in hits : i <= j

\* loadProducts(), from the completion of its fetch.
loadProductsResume(v, resp) ==
  IF ~resp.ok THEN v
  ELSE
    LET list == resp.json
        i == pendingConclusion(list)
    IN  IF i # 0
          THEN [v EXCEPT !.products = list,
                         !.conclusionLot = list[i].lot,
                         !.showConclusionModal = TRUE,
                         !.showValidationModal = TRUE]
          ELSE [v EXCEPT !.products = list,
                         !.showConclusionModal = FALSE,
                         !.conclusionLot = NoLot]

\* handleValidateConfirm() and the submitConclusion() it calls, up to the
\* await of the POST.
handleValidateConfirm(v) ==
  IF v.conclusionLot = NoLot THEN v
  ELSE [v EXCEPT !.isValidating = TRUE,
                 !.isSubmittingConclusion = TRUE,
                 !.request = "post"]

\* Mutant: submitConclusion rethrows, and the validation modal stays open
\* when the POST failed.
conclusionPosted_KeepOpen(v, resp) ==
  IF resp.ok THEN [v EXCEPT !.request = "reload"]
  ELSE [v EXCEPT !.isSubmittingConclusion = FALSE,
                 !.isValidating = FALSE,
                 !.request = "none"]

\* submitConclusion() from the completion of its POST: a rejected POST is
\* caught and logged, and handleValidateConfirm goes on after its await; an
\* accepted one awaits loadProducts().
conclusionPosted(v, resp) ==
  IF resp.ok THEN [v EXCEPT !.request = "reload"]
  ELSE [v EXCEPT !.isSubmittingConclusion = FALSE,
                 !.showValidationModal = FALSE,
                 !.isValidating = FALSE,
                 !.request = "none"]

\* submitConclusion() from the completion of loadProducts(), and the rest
\* of handleValidateConfirm.
productsReloaded(v, resp) ==
  [loadProductsResume(v, resp) EXCEPT
     !.showConclusionModal = FALSE,
     !.conclusionLot = NoLot,
     !.isSubmittingConclusion = FALSE,
     !.showValidationModal = FALSE,
     !.isValidating = FALSE,
     !.request = "none"]

\* Mutant: rejecting submits the conclusion.
handleValidateReject_Submits(v) ==
  [v EXCEPT !.showValidationModal = FALSE, !.request = "post"]

handleValidateReject(v) == [v EXCEPT !.showValidationModal = FALSE]

\* The Tutup button and onOpenChange of the validation dialog.
closeValidationModal(v) == [v EXCEPT !.showValidationModal = FALSE]

\* The Batal button of the conclusion dialog.
closeConclusionModal(v) ==
  [v EXCEPT !.showConclusionModal = FALSE, !.conclusionLot = NoLot]

\* The database after a POST {lotNumber, isConclusion: true} it accepted.
Concluded(rows, lot) ==
  [i \in 1..Len(rows) |->
     IF rows[i].lot = lot THEN [rows[i] EXCEPT !.isConclusion = TRUE]
     ELSE rows[i]]

\* ---------------------------------------------------------------- actions
\* The provider after its first render: idle, the default sequence loaded,
\* loadFlows waiting for its fetch.
Mount ==
  /\ isSimulationMode = FALSE
  /\ simulationVariant = "sequence"
  /\ currentSteps = simulationSteps
  /\ activeMachineId = NoMachine
  /\ elapsedSeconds = 0
  /\ stepProgress = Zero
  /\ productFlows = <<>>
  /\ flowsLoading = TRUE
  /\ selectedProductId = NoProduct
  /\ lastConfiguration = NoConfiguration
  /\ isConfiguratorOpen = FALSE
  /\ realtimeResult = NoResult
  /\ startTimeRef = NoTime
  /\ sequenceIntervalRef = FALSE
  /\ realtimeIntervalRef = FALSE
  /\ elapsedIntervalRef = FALSE
  /\ hasInitialisedFlowsRef = FALSE
  /\ now = 0
  /\ flowsRequest = TRUE
  /\ tickFetchLive = 0
  /\ tickFetchStale = 0
  /\ pollLive = 0
  /\ pollStale = 0
  /\ resultFetch = 0
  /\ resultPushes = 0
  /\ resultFetches = 0
  /\ lastOp = "mount"
  /\ isValidationOpen = FALSE
  /\ goodProduct = <<>>
  /\ viewer = ViewerClosed
  /\ database = ProductRows
  /\ posts = 0

\* No machine stream has been looked up in the scene.
\* No event of the sensor stream has arrived.
StreamIdle ==
  /\ sensorEvent = NoEvent
  /\ readings = <<>>

\* lib/machines as loaded: no cache, no request.
LoaderIdle ==
  /\ machinesCache = NoCache
  /\ loadingPromise = NoPromise
  /\ requests = {}
  /\ issued = 0
  /\ returned = NoPromise

SceneIdle ==
  /\ machineName = <<>>
  /\ machineObjects = <<>>
  /\ matched = NoObject
  /\ StreamIdle
  /\ LoaderIdle

Init == Loaded({ModelsJson}) /\ Mount /\ SceneIdle

\* Time passes.  The engine reads the clock only as performance.now() minus
\* startTimeRef, so the clock is advanced only while a start reference is set.
Advance ==
  /\ startTimeRef # NoTime
  /\ now + TimeStep <= MaxTime
  /\ now' = now + TimeStep
  /\ UNCHANGED << models, simulationSteps, isSimulationMode,
                  simulationVariant, currentSteps,
                  activeMachineId, elapsedSeconds, stepProgress, productFlows,
                  flowsLoading, selectedProductId,
                  lastConfiguration, isConfiguratorOpen, realtimeResult,
                  startTimeRef, sequenceIntervalRef, realtimeIntervalRef,
                  elapsedIntervalRef, hasInitialisedFlowsRef, flowsRequest,
                  tickFetchLive, tickFetchStale, pollLive, pollStale,
                  resultFetch, resultPushes, resultFetches, lastOp,
                  isValidationOpen, goodProduct, viewer, database, posts,
                  machineName, machineObjects, matched,
                  streamVars, loaderVars >>

FlowsLoaded ==
  /\ flowsRequest
  /\ \E resp \in Responses(FlowFiles) :
       Becomes(Commit(State, loadFlows(State, resp)), "loadFlows")

StartSimulation ==
  Becomes(Commit(State, startSimulation(State)), "startSimulation")

StopSimulation ==
  \E preserveRealtimeResult \in BOOLEAN :
    Becomes(Commit(State, stopSimulation(State, preserveRealtimeResult)),
            IF preserveRealtimeResult THEN "stopSimulation(true)"
                                      ELSE "stopSimulation(false)")

RequestSimulationStart ==
  Becomes(Commit(State, requestSimulationStart(State)),
          "requestSimulationStart")

SubmitConfiguration ==
  \E productId \in ProductIds, formValues \in Forms :
    Becomes(Commit(State, submitConfiguration(State, productId, formValues)),
            "submitConfiguration")

SetSimulationVariant ==
  \E variant \in {"sequence", "realtime"} :
    Becomes(Commit(State, handleVariantChange(State, variant)),
            "setSimulationVariant")

DismissRealtimeResult ==
  Becomes(Commit(State, dismissRealtimeResult(State)), "dismissRealtimeResult")

\* The scripted ticker fires.
Tick ==
  /\ sequenceIntervalRef
  /\ Becomes(Commit(State, tick(State)), "tick")

\* The fetch of a tick() of the current scheduler completes.
TickFetchDone ==
  /\ tickFetchLive > 0
  /\ \E resp \in Responses(ResultFiles) :
       Becomes(Commit(State,
                      tickResume([State EXCEPT !.tickFetchLive = @ - 1], resp)),
               "tickResume")

\* The fetch of a tick() of a cleaned-up scheduler completes.
StaleTickFetchDone ==
  /\ tickFetchStale > 0
  /\ \E resp \in Responses(ResultFiles) :
       Becomes(Commit(State,
                      tickResume([State EXCEPT !.tickFetchStale = @ - 1], resp)),
               "tickResume(stale)")

\* The realtime elapsed ticker fires.
UpdateElapsed ==
  /\ elapsedIntervalRef
  /\ Becomes(Commit(State, updateElapsed(State)), "updateElapsed")

\* The realtime poll ticker fires.
Poll ==
  /\ realtimeIntervalRef
  /\ Becomes(Commit(State, pollRealtime(State)), "pollRealtime")

\* The fetch of a pollRealtime() of the current scheduler completes.
PollDone ==
  /\ pollLive > 0
  /\ \E resp \in Responses(PollFiles) :
       Becomes(Commit(State,
                      pollResume([State EXCEPT !.pollLive = @ - 1], resp)),
               IF ~resp.ok THEN "pollResume(failed)"
               ELSE IF Len(resp.json) = 0 THEN "pollResume(empty)"
               ELSE IF statusOf(selectRecord(State, resp.json)) = "finish"
                 THEN "pollResume(finish)"
               ELSE "pollResume(process)")

\* The fetch of a pollRealtime() of a cleaned-up scheduler completes: the
\* call returns at its check of cancelled.
StalePollDone ==
  /\ pollStale > 0
  /\ Becomes(Commit(State, [State EXCEPT !.pollStale = @ - 1]),
             "pollResume(stale)")

\* The fetch of the running->stopped effect completes.
ResultFetchDone ==
  /\ resultFetch > 0
  /\ \E resp \in Responses(ResultFiles) :
       Becomes(Commit(State,
                      stoppedResume([State EXCEPT !.resultFetch = @ - 1], resp)),
               "stoppedResume")

Next ==
  \/ Advance
  \/ FlowsLoaded
  \/ StartSimulation
  \/ StopSimulation
  \/ RequestSimulationStart
  \/ SubmitConfiguration
  \/ SetSimulationVariant
  \/ DismissRealtimeResult
  \/ Tick
  \/ TickFetchDone
  \/ StaleTickFetchDone
  \/ UpdateElapsed
  \/ Poll
  \/ PollDone
  \/ StalePollDone
  \/ ResultFetchDone

Spec == Init /\ [][Next]_vars

TypeOK ==
  /\ isSimulationMode \in BOOLEAN
  /\ simulationVariant \in {"sequence", "realtime"}
  /\ InFlight(State) <= MaxInFlight
  /\ now \in 0..MaxTime

\* ------------------------------------------ a scripted run, second by second
\* /simulation-flows.json with duration overrides: P3 has total duration 0,
\* P4 a negative override, P5 a step of duration 0 between two others.
FlowP3 == [productId |-> "P3",
           flow |-> << [machineId |-> <<"caster">>, duration |-> 0] >>]

FlowP4 == [productId |-> "P4",
           flow |-> << [machineId |-> <<"furnace">>, duration |-> -4],
                       [machineId |-> <<"caster">>] >>]

FlowP5 == [productId |-> "P5",
           flow |-> << [machineId |-> <<"furnace">>, duration |-> 3],
                       [machineId |-> <<"furnace">>, duration |-> 0],
                       [machineId |-> <<"caster">>, duration |-> 5] >>]

ScriptedFlows == << FlowP1, FlowP3, FlowP4, FlowP5 >>
ScriptedProductIds == {"P1", "P3", "P4", "P5"}

\* The clock of the bounded model has not moved yet: a run started now has
\* the whole of 0..MaxTime before it.
ClockAtStart == now = 0

\* A second passes.
AdvanceSecond ==
  /\ startTimeRef # NoTime
  /\ now < MaxTime
  /\ now' = now + 1
  /\ UNCHANGED << models, simulationSteps, isSimulationMode,
                  simulationVariant, currentSteps,
                  activeMachineId, elapsedSeconds, stepProgress, productFlows,
                  flowsLoading, selectedProductId,
                  lastConfiguration, isConfiguratorOpen, realtimeResult,
                  startTimeRef, sequenceIntervalRef, realtimeIntervalRef,
                  elapsedIntervalRef, hasInitialisedFlowsRef, flowsRequest,
                  tickFetchLive, tickFetchStale, pollLive, pollStale,
                  resultFetch, resultPushes, resultFetches, lastOp,
                  isValidationOpen, goodProduct, viewer, database, posts,
                  machineName, machineObjects, matched,
                  streamVars, loaderVars >>

ScriptedFlowsLoaded ==
  /\ flowsRequest
  /\ ClockAtStart
  /\ Becomes(Commit(State, loadFlows(State, [ok |-> TRUE, json |-> ScriptedFlows])),
             "loadFlows")

ScriptedStart ==
  /\ ClockAtStart
  /\ StartSimulation

ScriptedSubmit ==
  /\ ClockAtStart
  /\ \E productId \in ScriptedProductIds, formValues \in Forms :
       Becomes(Commit(State, submitConfiguration(State, productId, formValues)),
               "submitConfiguration")

NextScripted ==
  \/ AdvanceSecond
  \/ ScriptedFlowsLoaded
  \/ ScriptedStart
  \/ ScriptedSubmit
  \/ Tick
  \/ TickFetchDone
  \/ StaleTickFetchDone
  \/ ResultFetchDone

\* Scripted runs started at time 0 and then left to their ticker.
SpecScripted == Init /\ [][NextScripted]_vars

\* ENABLED <<A>>_vars for the clock, the ticker and the fetches of tick().
ClockCanAdvance == startTimeRef # NoTime /\ now < MaxTime

TickWouldAct ==
  /\ sequenceIntervalRef
  /\ LET t == Commit(State, tick(State))
     IN  InFlight(t) <= MaxInFlight /\ (t # State \/ lastOp # "tick")

FetchCanComplete == tickFetchLive > 0 \/ tickFetchStale > 0

\* The same with weak fairness of the clock, of the ticker while it is
\* registered, and of the completion of the fetches tick() awaits.
FairScripted ==
  /\ SpecScripted
  /\ []<>(~ClockCanAdvance) \/ []<><<AdvanceSecond>>_vars
  /\ []<>(~TickWouldAct) \/ []<><<lastOp' = "tick">>_vars
  /\ []<>(~FetchCanComplete)
       \/ []<><<lastOp' \in {"tickResume", "tickResume(stale)"}>>_vars

\* Under FairScripted every scripted run with a positive total duration
\* that is under way ends with mode Idle and no timer registered.
ScriptedRunTerminates ==
  (isSimulationMode /\ totalDurationOf(currentSteps) > 0 /\ ~ClockAtStart)
    ~> (~isSimulationMode /\ ~sequenceIntervalRef
        /\ ~realtimeIntervalRef /\ ~elapsedIntervalRef)

\* ------------------------------------------------------ any model catalog
\* Model ids: one that ends in the suffix the step ids of repeated models
\* are given, and two that do not.
ModelIds == { <<"a">>, <<"a", "-", "2">>, <<"b">> }

RECURSIVE SeqsUpTo(_, _)
SeqsUpTo(S, n) ==
  IF n = 0 THEN { <<>> }
  ELSE LET shorter == SeqsUpTo(S, n - 1)
       IN  shorter \cup { Append(q, x) : q \in shorter, x \in S }

Catalogs == SeqsUpTo(ModelIds, MaxCatalog)

InitCatalog == Loaded(Catalogs) /\ Mount /\ SceneIdle

NextCatalog ==
  \/ FlowsLoaded
  \/ RequestSimulationStart
  \/ StopSimulation
  \/ Tick

\* The provider over any catalog: flows load (or fail to), runs on the
\* default sequence are requested, ticked and stopped.
SpecCatalog == InitCatalog /\ [][NextCatalog]_vars

\* ------------------------------------------------- any product flow file
\* Flow entries: known step ids and base ids, with and without overrides
\* (a duration override of 0 among them), an unknown machine id, and a
\* machine id that is the name of a member of Object.prototype.
FlowEntries ==
  { [machineId |-> <<"a">>],
    [machineId |-> <<"a", "-", "2">>, duration |-> 0],
    [machineId |-> <<"b">>, name |-> <<"Pour">>],
    [machineId |-> <<"b">>, name |-> <<"Cool">>, duration |-> 5],
    [machineId |-> <<"ghost">>, duration |-> 7],
    [machineId |-> <<"constructor">>] }

\* Files of one product.
AnyFlowFiles ==
  { << [productId |-> "P1", flow |-> flow] >> :
      flow \in SeqsUpTo(FlowEntries, MaxFlow) }

AnyFlowsLoaded ==
  /\ flowsRequest
  /\ \E resp \in Responses(AnyFlowFiles) :
       Becomes(Commit(State, loadFlows(State, resp)), "loadFlows")

NextFlow ==
  \/ AnyFlowsLoaded
  \/ RequestSimulationStart

\* The provider over any catalog and any flow file, up to the request of
\* a run.
SpecFlow == InitCatalog /\ [][NextFlow]_vars

\* ------------------------------------------- any count of a finish record
\* Finish records, told apart by their lot: counts and hours given as
\* numbers (with and without a fraction, a tie among them), as strings of
\* digits, as strings that hold more or other than digits, as a boolean,
\* or not at all.
CountRecords ==
  { [lot |-> <<"L1">>, status |-> "finish",
     goodProduct |-> [text |-> <<"4", "2">>],
     defectProduct |-> [tenths |-> 37],
     operationHour |-> [tenths |-> 10]],
    [lot |-> <<"L2">>, status |-> "finish",
     goodProduct |-> [tenths |-> 25],
     defectProduct |-> [text |-> <<"a", "b", "c">>],
     operationHour |-> [tenths |-> 20]],
    [lot |-> <<"L3">>, status |-> "finish",
     goodProduct |-> [text |-> <<"1", "2", " ", "p", "c", "s">>],
     operationHour |-> [tenths |-> 15]],
    [lot |-> <<"L4">>, status |-> "finish",
     goodProduct |-> [text |-> <<" ", "8">>],
     defectProduct |-> [bool |-> TRUE],
     operationHour |-> [text |-> <<" ", "two", " ">>]],
    [lot |-> <<"L5">>, status |-> "finish",
     goodProduct |-> [tenths |-> 4],
     defectProduct |-> [text |-> <<>>],
     operationHour |-> [tenths |-> 0]] }

CountFiles == { <<record>> : record \in CountRecords }

CountPollDone ==
  /\ pollLive > 0
  /\ \E resp \in Responses(CountFiles) :
       Becomes(Commit(State,
                      pollResume([State EXCEPT !.pollLive = @ - 1], resp)),
               IF resp.ok THEN "pollResume(finish)" ELSE "pollResume(failed)")

NextPoll ==
  \/ FlowsLoaded
  \/ RequestSimulationStart
  \/ SetSimulationVariant
  \/ Poll
  \/ CountPollDone
  \/ StalePollDone
  \/ DismissRealtimeResult

\* The provider up to Realtime runs over any finish record.
SpecPoll == Init /\ [][NextPoll]_vars

\* ------------------------------------------------- the review of a result
engineVars ==
  << models, simulationSteps, isSimulationMode, simulationVariant,
     currentSteps,
     activeMachineId, elapsedSeconds, stepProgress, productFlows,
     flowsLoading, selectedProductId, lastConfiguration, isConfiguratorOpen,
     realtimeResult, startTimeRef, sequenceIntervalRef, realtimeIntervalRef,
     elapsedIntervalRef, hasInitialisedFlowsRef, now, flowsRequest,
     tickFetchLive, tickFetchStale, pollLive, pollStale, resultFetch,
     resultPushes, resultFetches >>

modalVars == << isValidationOpen, goodProduct >>
viewerVars == << viewer, database, posts >>
sceneVars == << machineName, machineObjects, matched >>

\* The "validation" button of the report.
OpenValidation ==
  /\ "Report" \in Shown(State, isValidationOpen)
  /\ ~isValidationOpen
  /\ isValidationOpen' = TRUE
  /\ goodProduct' = prefill(initialOf(realtimeResult))
  /\ lastOp' = "setValidationOpen(true)"
  /\ UNCHANGED << engineVars, viewerVars, sceneVars,
                  streamVars, loaderVars >>

\* The user types into the field of the validation modal.
SetGoodProduct ==
  /\ "Validation" \in Shown(State, isValidationOpen)
  /\ \E text \in FieldTexts : goodProduct' = text
  /\ lastOp' = "setGoodProduct"
  /\ UNCHANGED << engineVars, isValidationOpen, viewerVars, sceneVars,
                  streamVars, loaderVars >>

\* Cancel, or onOpenChange(false), of the validation modal.
CancelValidation ==
  /\ "Validation" \in Shown(State, isValidationOpen)
  /\ isValidationOpen' = FALSE
  /\ lastOp' = "onCloseAction"
  /\ UNCHANGED << engineVars, goodProduct, viewerVars, sceneVars,
                  streamVars, loaderVars >>

\* Save of the validation modal: handleSubmit() calls onSubmitAction, which
\* logs the payload and closes the modal.
SaveValidation ==
  /\ "Validation" \in Shown(State, isValidationOpen)
  /\ isValidationOpen' = FALSE
  /\ lastOp' = "onSubmitAction"
  /\ UNCHANGED << engineVars, goodProduct, viewerVars, sceneVars,
                  streamVars, loaderVars >>

\* The page opens the product data viewer: its effect calls loadProducts().
OpenViewer ==
  /\ ~viewer.isOpen
  /\ viewer.request = "none"
  /\ viewer' = [viewer EXCEPT !.isOpen = TRUE, !.request = "load"]
  /\ lastOp' = "openViewer"
  /\ UNCHANGED << engineVars, modalVars, database, posts, sceneVars,
                  streamVars, loaderVars >>

CloseViewer ==
  /\ viewer.isOpen
  /\ viewer' = [viewer EXCEPT !.isOpen = FALSE]
  /\ lastOp' = "closeViewer"
  /\ UNCHANGED << engineVars, modalVars, database, posts, sceneVars,
                  streamVars, loaderVars >>

ProductsLoaded ==
  /\ viewer.request = "load"
  /\ \E resp \in Responses({database}) :
       viewer' = [loadProductsResume(viewer, resp) EXCEPT !.request = "none"]
  /\ lastOp' = "loadProducts"
  /\ UNCHANGED << engineVars, modalVars, database, posts, sceneVars,
                  streamVars, loaderVars >>

\* The confirm button of the validation dialog.
ValidateConfirm ==
  /\ viewer.showValidationModal
  /\ ~viewer.isValidating
  /\ viewer.request = "none"
  /\ viewer' = handleValidateConfirm(viewer)
  /\ lastOp' = "handleValidateConfirm"
  /\ UNCHANGED << engineVars, modalVars, database, posts, sceneVars,
                  streamVars, loaderVars >>

\* /api/products answers the POST.
ConclusionPosted ==
  /\ viewer.request = "post"
  /\ \E ok \in BOOLEAN :
       /\ viewer' = conclusionPosted(viewer, [ok |-> ok])
       /\ database' = IF ok THEN Concluded(database, viewer.conclusionLot)
                            ELSE database
       /\ posts' = IF ok THEN Bump(posts) ELSE posts
       /\ lastOp' = IF ok THEN "submitConclusion(ok)"
                          ELSE "submitConclusion(failed)"
  /\ UNCHANGED << engineVars, modalVars, sceneVars,
                  streamVars, loaderVars >>

ProductsReloaded ==
  /\ viewer.request = "reload"
  /\ \E resp \in Responses({database}) :
       viewer' = productsReloaded(viewer, resp)
  /\ lastOp' = "submitConclusion(done)"
  /\ UNCHANGED << engineVars, modalVars, database, posts, sceneVars,
                  streamVars, loaderVars >>

\* The reject button of the validation dialog.
ValidateReject ==
  /\ viewer.showValidationModal
  /\ ~viewer.isValidating
  /\ viewer' = handleValidateReject(viewer)
  /\ lastOp' = "handleValidateReject"
  /\ UNCHANGED << engineVars, modalVars, database, posts, sceneVars,
                  streamVars, loaderVars >>

CloseValidationModal ==
  /\ viewer.showValidationModal
  /\ ~viewer.isValidating
  /\ viewer' = closeValidationModal(viewer)
  /\ lastOp' = "setShowValidationModal(false)"
  /\ UNCHANGED << engineVars, modalVars, database, posts, sceneVars,
                  streamVars, loaderVars >>

CloseConclusionModal ==
  /\ viewer.showConclusionModal
  /\ ~viewer.isSubmittingConclusion
  /\ viewer' = closeConclusionModal(viewer)
  /\ lastOp' = "setShowConclusionModal(false)"
  /\ UNCHANGED << engineVars, modalVars, database, posts, sceneVars,
                  streamVars, loaderVars >>

\* A realtime run that finishes, its result, and the review of the result;
\* the product data viewer next to it.
NextReview ==
  \/ FlowsLoaded
  \/ RequestSimulationStart
  \/ SetSimulationVariant
  \/ PollDone
  \/ ResultFetchDone
  \/ DismissRealtimeResult
  \/ OpenValidation
  \/ SetGoodProduct
  \/ CancelValidation
  \/ SaveValidation
  \/ OpenViewer
  \/ CloseViewer
  \/ ProductsLoaded
  \/ ValidateConfirm
  \/ ConclusionPosted
  \/ ProductsReloaded
  \/ ValidateReject
  \/ CloseValidationModal
  \/ CloseConclusionModal

SpecReview == Init /\ [][NextReview]_vars

\* --------------------------------------------- MachineStreamTooltips
\* influxName.replace(/-\d+$/, "")
RECURSIVE TrailingDigits(_)
TrailingDigits(s) ==
  IF s # <<>> /\ s[Len(s)] \in Digits
    THEN 1 + TrailingDigits(SubSeq(s, 1, Len(s) - 1))
    ELSE 0

StripNumberSuffix(s) ==
  LET n == TrailingDigits(s)
  IN  IF n > 0 /\ Len(s) > n /\ s[Len(s) - n] = "-"
        THEN SubSeq(s, 1, Len(s) - n - 1)
        ELSE s

\* name.toLowerCase().replace(/[-_\s\d]+/g, "")
Normalized(s) ==
  SelectSeq(ToLowerCase(s),
            LAMBDA c : c \notin ({"-", "_"} \cup Whitespace \cup Digits))

\* a.includes(b)
Includes(a, b) ==
  \E k \in 0..(Len(a) - Len(b)) : SubSeq(a, k + 1, k + Len(b)) = b

Furnace == <<"f", "u", "r", "n", "a", "c", "e">>
Weightning == <<"w", "e", "i", "g", "h", "t", "n", "i", "n", "g">>
Weighing == <<"w", "e", "i", "g", "h", "i", "n", "g">>

\* Mutant: the table has no entry for the spelling "weighing".
mapping_NoAlias(baseName) ==
  CASE baseName = Furnace -> << Furnace, Furnace \o <<"2">> >>
    [] baseName = <<"u", "t">> -> << <<"u", "t">> >>
    [] baseName = <<"c", "t">> ->
         << <<"c", "t", "-", "1">>, <<"c", "t", "-", "2">>,
            <<"c", "t", "-", "3">>, <<"c", "t", "-", "4">> >>
    [] baseName = Weightning -> << Weightning >>
    [] OTHER -> <<>>

\* mapping[baseName] || [], for the entries furnace, ut, ct, weightning
\* and weighing of the table.
mapping(baseName) ==
  CASE baseName = Furnace -> << Furnace, Furnace \o <<"2">> >>
    [] baseName = <<"u", "t">> -> << <<"u", "t">> >>
    [] baseName = <<"c", "t">> ->
         << <<"c", "t", "-", "1">>, <<"c", "t", "-", "2">>,
            <<"c", "t", "-", "3">>, <<"c", "t", "-", "4">> >>
    [] baseName = Weightning -> << Weightning >>
    [] baseName = Weighing -> << Weightning >>
    [] OTHER -> <<>>

mapInfluxToModelId(influxName) ==
  mapping(StripNumberSuffix(ToLowerCase(influxName)))

\* The first of these positions of the Map, 0 when there is none.
FirstIndex(hits) ==
  IF hits = {} THEN 0 ELSE CHOOSE i \in hits : \A j \in hits : i <= j

\* The body of the loop over possibleIds for one modelId: the key itself,
\* a key equal up to case, an object whose userData.stepId is equal up to
\* case; 0 for none.
MatchOfId(modelId, objects) ==
  LET direct == FirstIndex({i \in 1..Len(objects) : objects[i].id = modelId})
      anyCase == FirstIndex({i \in 1..Len(objects) :
                               ToLowerCase(objects[i].id)
                                 = ToLowerCase(modelId)})
      byStep == FirstIndex({i \in 1..Len(objects) :
                              /\ objects[i].stepId # <<>>
                              /\ ToLowerCase(objects[i].stepId)
                                   = ToLowerCase(modelId)})
  IN  IF direct # 0 THEN direct
      ELSE IF anyCase # 0 THEN anyCase
      ELSE byStep

RECURSIVE MatchOfIds(_, _)
MatchOfIds(possibleIds, objects) ==
  IF possibleIds = <<>> THEN 0
  ELSE IF MatchOfId(Head(possibleIds), objects) # 0
    THEN MatchOfId(Head(possibleIds), objects)
  ELSE MatchOfIds(Tail(possibleIds), objects)

\* The id of the object findMatchingObject returns, every value of the Map
\* being an Object3D.
findMatchingObject(name, objects) ==
  LET explicit == MatchOfIds(mapInfluxToModelId(name), objects)
      normalized == Normalized(name)
      fuzzy == FirstIndex({i \in 1..Len(objects) :
                             \/ Includes(Normalized(objects[i].id), normalized)
                             \/ Includes(normalized,
                                         Normalized(objects[i].id))})
  IN  IF explicit # 0 THEN objects[explicit].id
      ELSE IF fuzzy # 0 THEN objects[fuzzy].id
      ELSE NoObject

\* The names of machine streams looked up.
MachineNames ==
  { <<"W", "e", "i", "g", "h", "i", "n", "g", "-", "0", "1">>,
    <<"x", "y", "z", "-", "9", "9">>,
    <<"F", "u", "r", "n", "a", "c", "e", "-", "0", "2">>,
    <<"U", "T", "_", "1">>,
    <<"C", "T", "-", "0", "4">>,
    <<"-", "7">>,
    <<"-">> }

\* The objects a scene is made of: id (the key of the Map) and
\* userData.stepId, empty when the object has none.
SceneObjects ==
  { [id |-> Weightning, stepId |-> <<>>],
    [id |-> <<"F", "u", "r", "n", "a", "c", "e", "2">>, stepId |-> <<>>],
    [id |-> <<"m", "e", "s", "h", "_", "4">>,
     stepId |-> <<"c", "t", "-", "4">>],
    [id |-> <<"x", "y">>, stepId |-> <<>>],
    [id |-> <<"0", "1">>, stepId |-> <<>>] }

\* The scenes: up to n distinct objects, in any order.
RECURSIVE ScenesUpTo(_)
ScenesUpTo(n) ==
  IF n = 0 THEN { <<>> }
  ELSE ScenesUpTo(n - 1)
         \cup { Append(sc, o) :
                  sc \in {t \in ScenesUpTo(n - 1) : Len(t) = n - 1},
                  o \in SceneObjects }

Scenes ==
  { sc \in ScenesUpTo(MaxScene) :
      \A i, j \in 1..Len(sc) : i # j => sc[i].id # sc[j].id }

Unresolved == <<"<pending>">>

InitResolve ==
  /\ Loaded({ModelsJson})
  /\ Mount
  /\ machineName \in MachineNames
  /\ machineObjects \in Scenes
  /\ matched = Unresolved
  /\ StreamIdle
  /\ LoaderIdle

Resolve ==
  /\ matched = Unresolved
  /\ matched' = findMatchingObject(machineName, machineObjects)
  /\ lastOp' = "findMatchingObject"
  /\ UNCHANGED << engineVars, modalVars, viewerVars,
                  machineName, machineObjects, streamVars, loaderVars >>

NextResolve == Resolve

SpecResolve == InitResolve /\ [][NextResolve]_vars

\* ----------------------------------------------------------------- claims
Timers == <<sequenceIntervalRef, realtimeIntervalRef, elapsedIntervalRef>>
NoTimers == ~sequenceIntervalRef /\ ~realtimeIntervalRef /\ ~elapsedIntervalRef

\* The operations a caller of the engine invokes.
CallerOps ==
  {"startSimulation", "stopSimulation(true)", "stopSimulation(false)",
   "requestSimulationStart", "submitConfiguration", "setSimulationVariant",
   "dismissRealtimeResult"}

\* C1: between one start and the next, result is assigned a RunResult at
\* most once.
C1_ResultPushedAtMostOnce == resultPushes <= 1

\* C2: in a Scripted run the result file is fetched exactly once per run,
\* also when the fetch of the termination tick is pending while further
\* ticks fire.
C2_ResultFetchedOncePerRun == lastOp = "tick" => resultFetches <= 1

\* C3: activeStepId is none or the id of a step of the loaded sequence, in
\* either variant.
C3_ActiveStepInSteps ==
  activeMachineId = NoMachine \/ activeMachineId \in StepIds(currentSteps)

\* C3, amended: the same, while the engine is idle or the variant is
\* Scripted; during a Realtime run activeStepId is whatever id the polled
\* record reports.
C3_ActiveStepInStepsUnlessRealtime ==
  (~isSimulationMode \/ simulationVariant = "sequence")
    => (activeMachineId = NoMachine \/ activeMachineId \in StepIds(currentSteps))

C3_Witness ==
  /\ isSimulationMode
  /\ simulationVariant = "sequence"
  /\ currentSteps # simulationSteps
  /\ activeMachineId \in StepIds(currentSteps)
  /\ pollStale > 0

\* C4: after every tick of a Scripted run, the termination tick included,
\* the one activeStepId is none or the id of a step of the current steps.
C4_TickActiveStepInSteps ==
  lastOp = "tick"
    => \/ activeMachineId = NoMachine
       \/ \E i \in 1..Len(currentSteps) : currentSteps[i].id = activeMachineId

C4_Witness ==
  /\ lastOp = "tick"
  /\ tickFetchLive > 0
  /\ activeMachineId = currentSteps[Len(currentSteps)].id
  /\ stepProgress = One

\* C5: at most one of the three interval timers is active, and only when
\* mode=Running.
C5_AtMostOneTimer ==
  /\ Cardinality({i \in 1..3 : Timers[i]}) <= 1
  /\ (~NoTimers => isSimulationMode)

\* C5, amended: at most one scheduler has timers (the scripted ticker, or
\* the two realtime timers, which are registered together), and timers are
\* active only when mode=Running.
C5_AtMostOneScheduler ==
  /\ ~(sequenceIntervalRef /\ (realtimeIntervalRef \/ elapsedIntervalRef))
  /\ realtimeIntervalRef = elapsedIntervalRef
  /\ (~NoTimers => isSimulationMode)

C5_Witness ==
  /\ isSimulationMode
  /\ realtimeIntervalRef
  /\ elapsedIntervalRef
  /\ tickFetchStale > 0

\* C6: the scripted ticker is never active together with a realtime timer,
\* and no callback of a scheduler that has been cleaned up changes
\* activeStepId once a new scheduler has started.
C6_NoStaleSchedulerWrite ==
  [][/\ ~(sequenceIntervalRef' /\ (realtimeIntervalRef' \/ elapsedIntervalRef'))
     /\ (isSimulationMode /\ lastOp' \in {"tickResume(stale)", "pollResume(stale)"})
          => activeMachineId' = activeMachineId]_vars

\* C7: a variant switch requested while mode=Running does not change the
\* running scheduler: no step leads from a running scripted ticker to
\* running realtime timers or back.
C7_NoSwitchWhileRunning ==
  [][/\ ~(sequenceIntervalRef /\ realtimeIntervalRef')
     /\ ~(realtimeIntervalRef /\ sequenceIntervalRef')]_vars

\* C7, amended: a variant switch requested while mode=Running takes effect
\* at once: the timers of the running scheduler are cancelled and the
\* scheduler of the requested variant runs, mode staying Running.
C7_SwitchRestartsScheduler ==
  (lastOp = "setSimulationVariant" /\ isSimulationMode)
    => /\ sequenceIntervalRef = (simulationVariant = "sequence")
       /\ realtimeIntervalRef = (simulationVariant = "realtime")
       /\ elapsedIntervalRef = (simulationVariant = "realtime")

C7_Witness ==
  /\ lastOp = "setSimulationVariant"
  /\ isSimulationMode
  /\ simulationVariant = "realtime"
  /\ realtimeIntervalRef
  /\ tickFetchStale > 0

\* C8: after a poll of a Realtime run processed a finish record, both
\* realtime timers are cancelled, mode is Idle, activeStepId, stepProgress
\* and elapsedSeconds are cleared, and no poll of that run remains that
\* could still change the state (those in flight are cancelled); while the
\* engine is idle no poll is live and no poll timer is registered.
C8_FinishIsTerminal ==
  /\ lastOp = "pollResume(finish)"
       => /\ NoTimers
          /\ ~isSimulationMode
          /\ activeMachineId = NoMachine
          /\ stepProgress = Zero
          /\ elapsedSeconds = 0
          /\ realtimeResult # NoResult
  /\ ~isSimulationMode => (pollLive = 0 /\ ~realtimeIntervalRef)

C8_Witness ==
  /\ lastOp = "pollResume(finish)"
  /\ pollStale > 0
  /\ realtimeResult # NoResult

\* C9: once a run has produced a RunResult, result keeps that value until a
\* caller dismisses it, stops, or starts a run.
C9_ResultKept ==
  [][(realtimeResult # NoResult /\ lastOp' \notin CallerOps)
       => realtimeResult' = realtimeResult]_vars

\* C10: immediately after stopSimulation(false), from any state, no timer is
\* active, mode=Idle, activeStepId is none, stepProgress=0, elapsedSeconds=0
\* and result is none.
C10_StopClearsAll ==
  lastOp = "stopSimulation(false)"
    => /\ NoTimers
       /\ ~isSimulationMode
       /\ activeMachineId = NoMachine
       /\ stepProgress = Zero
       /\ elapsedSeconds = 0
       /\ realtimeResult = NoResult

\* stopSimulation(false) acted on a scripted run whose termination tick was
\* waiting for its fetch.
C10_Witness ==
  /\ lastOp = "stopSimulation(false)"
  /\ tickFetchStale > 0
  /\ resultFetches = 2
  /\ resultPushes = 0

\* The engine state a consumer of the context observes, with the timers.
Engine(s) ==
  << s.isSimulationMode, s.sequenceIntervalRef, s.realtimeIntervalRef,
     s.elapsedIntervalRef, s.activeMachineId, s.stepProgress,
     s.elapsedSeconds, s.realtimeResult >>

\* The state after stopSimulation(p) and its render, and after a second call.
StopOnce(p) == Commit(State, stopSimulation(State, p))
StopTwice(p) == Commit(StopOnce(p), stopSimulation(StopOnce(p), p))

\* C11: stopSimulation(true) leaves result as it was, and cancels all
\* timers and clears mode, activeStepId, stepProgress and elapsedSeconds.
C11_StopPreservesResult ==
  [][lastOp' = "stopSimulation(true)"
       => /\ realtimeResult' = realtimeResult
          /\ NoTimers'
          /\ ~isSimulationMode'
          /\ activeMachineId' = NoMachine
          /\ stepProgress' = Zero
          /\ elapsedSeconds' = 0]_vars

\* stopSimulation(true) acted on a realtime run that had a poll in flight
\* and showed the result fetched when the previous run stopped.
C11_Witness ==
  /\ lastOp = "stopSimulation(true)"
  /\ realtimeResult # NoResult
  /\ realtimeResult.lot = <<"R">>
  /\ pollStale > 0
  /\ resultFetch = 1
  /\ resultFetches = 1
  /\ resultPushes = 1

\* C12: in every state, calling stopSimulation twice in a row leaves the
\* same mode, timers, activeStepId, stepProgress, elapsedSeconds and result
\* as calling it once.
C12_StopIdempotent ==
  \A p \in BOOLEAN : Engine(StopTwice(p)) = Engine(StopOnce(p))

\* A realtime run with a result, an active machine and a poll in flight, on
\* which the first stop changes the engine state and the second does not.
C12_Witness ==
  /\ isSimulationMode
  /\ realtimeIntervalRef
  /\ pollLive > 0
  /\ realtimeResult # NoResult
  /\ activeMachineId # NoMachine
  /\ Engine(StopOnce(FALSE)) # Engine(State)
  /\ Engine(StopTwice(FALSE)) = Engine(StopOnce(FALSE))

\* C13: a response requested before stopSimulation() that resolves after
\* it changes none of mode, activeStepId, stepProgress, elapsedSeconds and
\* result.
C13_StaleResponseDiscarded ==
  [][(/\ lastOp \in {"stopSimulation(true)", "stopSimulation(false)"}
      /\ lastOp' \in {"tickResume(stale)", "pollResume(stale)"})
       => /\ isSimulationMode' = isSimulationMode
          /\ activeMachineId' = activeMachineId
          /\ stepProgress' = stepProgress
          /\ elapsedSeconds' = elapsedSeconds
          /\ realtimeResult' = realtimeResult]_vars

\* C14: when the flow-load request resolves after a run was started, its
\* data overwrites neither the current steps nor the selected product nor
\* the mode, and the running scheduler is not restarted.
C14_FlowLoadKeepsRun ==
  [][(isSimulationMode /\ lastOp' = "loadFlows")
       => /\ currentSteps' = currentSteps
          /\ selectedProductId' = selectedProductId
          /\ isSimulationMode' = isSimulationMode
          /\ startTimeRef' = startTimeRef
          /\ tickFetchStale' = tickFetchStale
          /\ pollStale' = pollStale]_vars

\* C15: every startSimulation(), from Idle or during a run, records the
\* start reference time and leaves result none, mode=Running,
\* elapsedSeconds=0, stepProgress=0 and activeStepId none; when the call
\* starts the scripted scheduler, the tick that scheduler makes at elapsed
\* 0 has set activeStepId to the first step.
C15_StartResets ==
  [][(lastOp' = "startSimulation" /\ now' = now)
       => /\ startTimeRef' = now'
          /\ realtimeResult' = NoResult
          /\ isSimulationMode'
          /\ elapsedSeconds' = 0
          /\ stepProgress' = Zero
          /\ \/ activeMachineId' = NoMachine
             \/ /\ ~isSimulationMode
                /\ simulationVariant = "sequence"
                /\ activeMachineId' = currentSteps[1].id]_vars

\* The position in steps of the first step with this id, 0 for none.
PosOf(steps, id) ==
  LET hits == {i \in 1..Len(steps) : steps[i].id = id}
  IN  IF hits = {} THEN 0 ELSE CHOOSE i \in hits : \A j \in hits : i <= j

\* The step whose window [start, start + duration) holds the elapsed time,
\* 0 when the elapsed time is past the last window.
WindowOf(steps, elapsed) ==
  LET hits == {i \in 1..Len(steps) :
                 elapsed < SumDurations(SubSeq(steps, 1, i))}
  IN  IF hits = {} THEN 0 ELSE CHOOSE i \in hits : \A j \in hits : i <= j

\* Fractions with positive denominators.
InUnit(p) == 0 <= p[1] /\ p[1] <= p[2]
LessEq(p, q) == p[1] * q[2] <= q[1] * p[2]

C17_FailedFetchNotRetried ==
  [][(/\ lastOp' = "tickResume"
      /\ realtimeResult = NoResult
      /\ realtimeResult' = NoResult)
       => /\ ~isSimulationMode'
          /\ ~sequenceIntervalRef'
          /\ resultFetch' = resultFetch]_vars

\* C18: a Scripted run over an empty sequence or with totalDuration <= 0
\* has activeStepId none, stepProgress=0, elapsedSeconds=0 and no scripted
\* ticker registered.
C18_NoTickerOnEmptyRun ==
  (/\ isSimulationMode
   /\ simulationVariant = "sequence"
   /\ (Len(currentSteps) = 0 \/ totalDurationOf(currentSteps) <= 0))
    => /\ activeMachineId = NoMachine
       /\ stepProgress = Zero
       /\ elapsedSeconds = 0
       /\ ~sequenceIntervalRef

\* C19: stepProgress is within [0,1] before and after every step, and a
\* tick of a Scripted run that finds the elapsed time in the window of the
\* step the previous tick found does not lower stepProgress.
C19_ProgressMonotone ==
  [][/\ InUnit(stepProgress)
     /\ InUnit(stepProgress')
     /\ (/\ lastOp' = "tick"
         /\ now' = now
         /\ isSimulationMode
         /\ activeMachineId # NoMachine
         /\ WindowOf(currentSteps, elapsedSeconds) # 0
         /\ WindowOf(currentSteps, elapsedSeconds')
              = WindowOf(currentSteps, elapsedSeconds))
          => LessEq(stepProgress, stepProgress')]_vars

\* The last second of the window of P4's caster, which follows a step
\* with a negative duration override.
C19_Witness ==
  /\ lastOp = "tick"
  /\ isSimulationMode
  /\ selectedProductId = "P4"
  /\ elapsedSeconds = 11
  /\ stepProgress = <<15, 16>>

\* C20: the step ids generated from the catalog are pairwise distinct, and
\* the occurrence of a step is its rank among the models of its baseId in
\* catalog order.
C20_StepIdsDistinct ==
  /\ \A i, j \in 1..Len(simulationSteps) :
       i # j => simulationSteps[i].id # simulationSteps[j].id
  /\ \A i \in 1..Len(simulationSteps) :
       simulationSteps[i].occurrence
         = Cardinality({j \in 1..i : simulationSteps[j].baseId
                                       = simulationSteps[i].baseId})

\* The state after submitConfiguration(productId, formValues) and its render.
SubmitOf(productId, formValues) ==
  Commit(State, submitConfiguration(State, productId, formValues))

\* /simulation-flows.json with a first product whose flow names only
\* machines the registry does not know.
UnknownFirstFlows == << FlowP2, FlowP1 >>

\* The state after loadFlows received this file, and its render.
LoadOf(json) == Commit(State, loadFlows(State, [ok |-> TRUE, json |-> json]))

C29_FailedPollNotFatal ==
  [][(lastOp' = "pollResume(failed)" /\ now' = now)
       => /\ activeMachineId' = NoMachine
          /\ stepProgress' = Zero
          /\ isSimulationMode /\ isSimulationMode'
          /\ simulationVariant' = "realtime"
          /\ realtimeIntervalRef /\ realtimeIntervalRef'
          /\ elapsedIntervalRef /\ elapsedIntervalRef'
          /\ ~sequenceIntervalRef'
          /\ startTimeRef' = startTimeRef
          /\ elapsedSeconds' = elapsedSeconds
          /\ realtimeResult' = realtimeResult
          /\ pollLive' = pollLive - 1]_vars

\* A poll failed during a realtime run that has lasted some time: the run
\* goes on with both tickers, and a further failure would change nothing.
C29_Witness ==
  /\ lastOp = "pollResume(failed)"
  /\ isSimulationMode
  /\ simulationVariant = "realtime"
  /\ realtimeIntervalRef
  /\ elapsedIntervalRef
  /\ elapsedSeconds > 0
  /\ activeMachineId = NoMachine
  /\ stepProgress = Zero
  /\ realtimeResult = NoResult

\* The elapsed time at which the window of step i starts.
StartOf(steps, i) == SumDurations(SubSeq(steps, 1, i - 1))

PositiveDurations(steps) ==
  Len(steps) > 0 /\ \A i \in 1..Len(steps) : steps[i].duration > 0

\* C30: over steps with positive durations, a tick at elapsed e with
\* 0 <= e < totalDuration sets activeStepId to the step i whose window
\* [start, start + duration) holds e (every earlier step ends at or before
\* e) and stepProgress to (e - start) / duration.
C30_TickFindsStep ==
  [][(/\ lastOp' = "tick"
      /\ now' = now
      /\ isSimulationMode
      /\ sequenceIntervalRef
      /\ startTimeRef # NoTime
      /\ PositiveDurations(currentSteps)
      /\ now - startTimeRef < totalDurationOf(currentSteps))
       => LET e == now - startTimeRef
          IN  \E i \in 1..Len(currentSteps) :
                /\ \A j \in 1..(i - 1) :
                     StartOf(currentSteps, j) + currentSteps[j].duration <= e
                /\ StartOf(currentSteps, i) <= e
                /\ e < StartOf(currentSteps, i) + currentSteps[i].duration
                /\ activeMachineId' = currentSteps[i].id
                /\ stepProgress'[1] * currentSteps[i].duration
                     = (e - StartOf(currentSteps, i)) * stepProgress'[2]
                /\ stepProgress'[2] > 0]_vars

\* A tick at the first second of the window of the default sequence's
\* second step: the step is active at progress 0.
C30_Witness ==
  /\ lastOp = "tick"
  /\ isSimulationMode
  /\ currentSteps = simulationSteps
  /\ now - startTimeRef = simulationSteps[1].duration
  /\ elapsedSeconds = simulationSteps[1].duration
  /\ activeMachineId = simulationSteps[2].id
  /\ stepProgress = Zero

C23_ReportFollowsResult ==
  ("Report" \in Shown(State, isValidationOpen)) <=> (realtimeResult # NoResult)

\* A realtime run has just finished: its result is set and the report is
\* shown.
C23_Witness ==
  /\ lastOp = "pollResume(finish)"
  /\ ~isSimulationMode
  /\ realtimeResult # NoResult
  /\ "Report" \in Shown(State, isValidationOpen)

\* A RunResult has been assigned to result by this step.
ResultArrives ==
  /\ realtimeResult' # NoResult
  /\ lastOp' \in {"pollResume(finish)", "stoppedResume", "tickResume",
                  "tickResume(stale)"}
  /\ (resultPushes' # resultPushes \/ realtimeResult' # realtimeResult)

\* C24: validation is shown only while the report is shown, in the result
\* modal and in the product data viewer; it comes to be shown only by the
\* user's action on a shown report; and when a result arrives the report
\* is shown and validation is not.
C24_LinearReview ==
  [][/\ ("Validation" \in Shown(State, isValidationOpen))'
          => ("Report" \in Shown(State, isValidationOpen))'
     /\ viewer'.showValidationModal => viewer'.showConclusionModal
     /\ (/\ "Validation" \notin Shown(State, isValidationOpen)
         /\ ("Validation" \in Shown(State, isValidationOpen))')
          => /\ lastOp' = "setValidationOpen(true)"
             /\ "Report" \in Shown(State, isValidationOpen)
     /\ (~viewer.showValidationModal /\ viewer'.showValidationModal)
          => /\ viewer.showConclusionModal
             /\ lastOp' \notin {"loadProducts", "submitConclusion(done)"}
     /\ ResultArrives
          => /\ ("Report" \in Shown(State, isValidationOpen))'
             /\ ("Validation" \notin Shown(State, isValidationOpen))']_vars

\* C25: after a confirmation in validation that succeeded (Save of the
\* validation modal; an accepted POST of the viewer's confirm, its reload
\* done), validation and report are closed and the engine's result is none.
C25_ConfirmClearsAll ==
  [][lastOp' \in {"onSubmitAction", "submitConclusion(done)"}
       => /\ Shown(State, isValidationOpen)' = {}
          /\ ~viewer'.showValidationModal
          /\ ~viewer'.showConclusionModal
          /\ realtimeResult' = NoResult]_vars

\* C26: when the POST of the viewer's confirm fails, the validation dialog
\* and the conclusion dialog stay open on the same lot.
C26_FailedConfirmStaysOpen ==
  [][lastOp' = "submitConclusion(failed)"
       => /\ viewer'.showValidationModal
          /\ viewer'.showConclusionModal = viewer.showConclusionModal
          /\ viewer'.conclusionLot = viewer.conclusionLot]_vars

C28_ValidationIsSnapshot ==
  [][/\ (/\ "Validation" \in Shown(State, isValidationOpen)
         /\ ("Validation" \in Shown(State, isValidationOpen))'
         /\ lastOp' # "setGoodProduct")
          => goodProduct' = goodProduct
     /\ lastOp' = "setGoodProduct"
          => /\ realtimeResult' = realtimeResult
             /\ Shown(State, isValidationOpen)'
                  = Shown(State, isValidationOpen)]_vars

\* ------------------------------------------------------------ C31
\* The step a flow entry stands for: the registry's step of that exact id,
\* else the first step of that base id, else none; with the entry's name
\* and duration in place of the step's where the entry gives them.
StepOfEntry(entry) ==
  LET exact == {i \in 1..Len(simulationSteps) :
                  simulationSteps[i].id = entry.machineId}
      based == {i \in 1..Len(simulationSteps) :
                  simulationSteps[i].baseId = entry.machineId}
      found == IF exact # {}
                 THEN simulationSteps[CHOOSE i \in exact :
                                        \A j \in exact : j <= i]
               ELSE IF based # {}
                 THEN simulationSteps[CHOOSE i \in based :
                                        \A j \in based : i <= j]
               ELSE NoStep
  IN  IF found = NoStep THEN NoStep
      ELSE [found EXCEPT
              !.name = IF "name" \in DOMAIN entry THEN entry.name ELSE @,
              !.duration = IF "duration" \in DOMAIN entry
                             THEN entry.duration ELSE @]

StepsOfFlow(flowDefinition) ==
  SelectSeq([i \in 1..Len(flowDefinition.flow) |->
               StepOfEntry(flowDefinition.flow[i])],
            LAMBDA st : st # NoStep)

\* C31: the resolution of every loaded flow is the sequence of the steps
\* its entries stand for, in flow order, the entries that stand for no
\* step left out (and so empty when no entry resolves).
C31_FlowResolution ==
  \A i \in 1..Len(productFlows) :
    deriveStepsFromFlow(productFlows[i]) = StepsOfFlow(productFlows[i])

\* ------------------------------------------------------------ C32
\* The lot a text names: trimmed, in lower case.
FoldedLot(text) == ToLowerCase(Trim(text))

\* The lot of the stored configuration, empty when there is none.
ConfiguredLot ==
  IF lastConfiguration # NoConfiguration
     /\ "lot" \in DOMAIN lastConfiguration.general
    THEN FoldedLot(lastConfiguration.general.lot)
    ELSE <<>>

\* The index of the record the claim has a poll select.
RecordIndex(entries, configured) ==
  LET matches == {i \in 1..Len(entries) :
                    /\ "lot" \in DOMAIN entries[i]
                    /\ FoldedLot(entries[i].lot) = configured}
  IN  IF configured # <<>> /\ matches # {}
        THEN CHOOSE i \in matches : \A j \in matches : i <= j
        ELSE 1

\* C32: of every non-empty list of records a poll may receive, the poll
\* selects the first record whose trimmed, case-folded lot is that of the
\* stored configuration, and the first record when no lot is configured or
\* no record matches.
C32_SelectsByLot ==
  LET configured == ConfiguredLot
  IN  \A entries \in PollFiles :
        entries # <<>>
          => selectRecord(State, entries)
               = entries[RecordIndex(entries, configured)]

\* A poll of a Realtime run configured with lot "B " was answered with a
\* list whose second record has lot " b": the run finished on that record.
C32_Witness ==
  /\ lastOp = "pollResume(finish)"
  /\ lastConfiguration # NoConfiguration
  /\ lastConfiguration.general.lot = <<"B", " ">>
  /\ realtimeResult # NoResult
  /\ realtimeResult.lot = <<"b">>

\* ------------------------------------------------------------ C33
\* The machine a record reports: its activeMachineId without the blanks
\* around it, none when the field is absent or blank.
ReportedMachine(record) ==
  IF "activeMachineId" \in DOMAIN record
     /\ Trim(record.activeMachineId) # <<>>
    THEN Trim(record.activeMachineId)
    ELSE NoMachine

\* C33: a poll that selects a record with status process sets activeStepId
\* to the machine the record reports and stepProgress to 1 if there is one
\* and to 0 otherwise; and while a Realtime run is Running, stepProgress
\* is 1 exactly when activeStepId is set.
C33_BinaryProgress ==
  /\ \A entries \in PollFiles :
       LET record == selectRecord(State, entries)
           after == pollResume(State, [ok |-> TRUE, json |-> entries])
           reported == ReportedMachine(record)
       IN  (entries # <<>> /\ statusOf(record) = "process")
             => /\ after.activeMachineId = reported
                /\ after.stepProgress
                     = IF reported # NoMachine THEN One ELSE Zero
  /\ (isSimulationMode /\ simulationVariant = "realtime")
       => /\ stepProgress \in {Zero, One}
          /\ (stepProgress = One <=> activeMachineId # NoMachine)

\* A poll of a Realtime run has just reported the machine "caster".
C33_Witness ==
  /\ lastOp = "pollResume(process)"
  /\ isSimulationMode
  /\ simulationVariant = "realtime"
  /\ activeMachineId = <<"caster">>
  /\ stepProgress = One

\* ------------------------------------------------------------ C34
\* The integers nearest to n / 10.
NearestIntegers(tenths) ==
  {k \in -1..100 : \A j \in -1..100 :
     (IF 10 * k >= tenths THEN 10 * k - tenths ELSE tenths - 10 * k)
       <= (IF 10 * j >= tenths THEN 10 * j - tenths ELSE tenths - 10 * j)}

\* A numeric string: digits, with blanks around them at most.
IsNumericText(text) ==
  Trim(text) # <<>> /\ \A i \in 1..Len(Trim(text)) : Trim(text)[i] \in Digits

\* The counts the claim allows for a value of a record.
CountsOf(value) ==
  IF "tenths" \in DOMAIN value THEN NearestIntegers(value.tenths)
  ELSE IF "text" \in DOMAIN value /\ IsNumericText(value.text)
    THEN {DigitsValue(Trim(value.text))}
  ELSE {NoCount}

\* C34: the RunResult a poll builds from a finish record has, for
\* goodProduct and for defectProduct, the record's number rounded to the
\* nearest integer, or the integer a numeric string denotes, else null;
\* and for a numeric operationHour n the text "n hour" when n is 1 and
\* "n hours" otherwise.
C34_Coercions ==
  lastOp = "pollResume(finish)"
    => \A record \in CountRecords :
         realtimeResult.lot = record.lot
           => /\ realtimeResult.goodProduct
                   \in CountsOf(FieldOf(record, "goodProduct"))
              /\ realtimeResult.defectProduct
                   \in CountsOf(FieldOf(record, "defectProduct"))
              /\ "tenths" \in DOMAIN FieldOf(record, "operationHour")
                   => realtimeResult.operationHour
                        = NumberText(record.operationHour.tenths)
                            \o <<" ", IF record.operationHour.tenths = 10
                                        THEN "hour" ELSE "hours">>

\* ------------------------------------------------------------ C35
\* C35: while a run is in progress (mode Running) no RunResult is stored.
C35_NoResultWhileRunning ==
  isSimulationMode => realtimeResult = NoResult

\* ------------------------------------------------------------ C36
\* The state a requestSimulationStart() would leave, and the engine's
\* state apart from the bookkeeping of renders.
StartRequested == Commit(State, requestSimulationStart(State))
Settled(s) == [s EXCEPT !.depsFresh = FALSE, !.rendered = FALSE]

\* C36: called while Idle, requestSimulationStart leaves the variant
\* Scripted and starts no Realtime run; beyond the variant it changes
\* nothing while the flows are loading, starts a run on the default
\* sequence when the flows have loaded and there is none, and otherwise
\* only opens the configurator.
C36_IdleStartIsScripted ==
  LET after == StartRequested
  IN  ~isSimulationMode =>
        /\ after.simulationVariant = "sequence"
        /\ ~after.realtimeIntervalRef
        /\ ~after.elapsedIntervalRef
        /\ after.pollLive = pollLive
        /\ flowsLoading
             => Settled(after)
                  = [State EXCEPT !.simulationVariant = "sequence"]
        /\ (~flowsLoading /\ productFlows = <<>>)
             => /\ after.isSimulationMode
                /\ after.currentSteps = simulationSteps
                /\ after.sequenceIntervalRef
        /\ (~flowsLoading /\ productFlows # <<>>)
             => Settled(after)
                  = [State EXCEPT !.simulationVariant = "sequence",
                                  !.isConfiguratorOpen = TRUE]

\* A start was requested while Idle with flows loaded: the configurator
\* is open, the variant is Scripted and nothing runs.
C36_Witness ==
  /\ lastOp = "requestSimulationStart"
  /\ ~isSimulationMode
  /\ simulationVariant = "sequence"
  /\ isConfiguratorOpen
  /\ productFlows # <<>>
  /\ ~sequenceIntervalRef /\ ~realtimeIntervalRef

\* ------------------------------------------------------------ C37
\* The product has no flow among the loaded ones, or one that resolves to
\* no step.
Refused(productId) ==
  \/ FindFlow(productFlows, productId) = NoStep
  \/ deriveStepsFromFlow(FindFlow(productFlows, productId)) = <<>>

\* C37: a submitConfiguration for a product without loaded flow, or whose
\* flow resolves to no step, leaves the mode, the steps, the selected
\* product, lastConfiguration, the result, the timers and the configurator
\* as they were.
C37_RefusedSubmissionFrame ==
  \A productId \in ProductIds :
    Refused(productId)
      => \A formValues \in Forms :
         LET after == SubmitOf(productId, formValues)
         IN  /\ after.isSimulationMode = isSimulationMode
             /\ after.currentSteps = currentSteps
             /\ after.selectedProductId = selectedProductId
             /\ after.lastConfiguration = lastConfiguration
             /\ after.realtimeResult = realtimeResult
             /\ after.sequenceIntervalRef = sequenceIntervalRef
             /\ after.realtimeIntervalRef = realtimeIntervalRef
             /\ after.elapsedIntervalRef = elapsedIntervalRef
             /\ after.startTimeRef = startTimeRef
             /\ after.isConfiguratorOpen = isConfiguratorOpen

\* A product that is not in the loaded flows was submitted from the open
\* configurator before any run: the configurator is still open, nothing
\* runs and no configuration is stored.
C37_Witness ==
  /\ lastOp = "submitConfiguration"
  /\ isConfiguratorOpen
  /\ ~isSimulationMode
  /\ productFlows # <<>>
  /\ Refused("PX")
  /\ lastConfiguration = NoConfiguration
  /\ realtimeResult = NoResult
  /\ ~sequenceIntervalRef

\* ------------------------------------------------------ useSensorStream
\* The payloads of the "reading" events: a machine name that is absent,
\* padded with a blank or that of the weighing machine; a sensor name or
\* none; a value that is a number, the number 1e999 (Infinity once
\* parsed), a string, a boolean or absent; a time or none.
StreamMachines == { <<" ", "M1">>, <<"W">> }
StreamValues ==
  { [tenths |-> 15], [inf |-> TRUE], [bool |-> TRUE],
    [text |-> <<"7", ".", "5">>], [text |-> <<"1", "2", "a", "b", "c">>],
    [text |-> <<"x">>] }

SensorEvents ==
  LET named == { [sensorName |-> <<"T">>] } \cup { [time |-> <<"t1">>] }
      sensors == named
                   \cup { [f \in {} |-> TRUE] }
      withMachine ==
        sensors \cup { [f \in DOMAIN p \cup {"machineName"} |->
                          IF f = "machineName" THEN m ELSE p[f]] :
                         p \in sensors, m \in StreamMachines }
  IN  withMachine
        \cup { [f \in DOMAIN p \cup {"value"} |->
                  IF f = "value" THEN v ELSE p[f]] :
                 p \in withMachine, v \in StreamValues }

NaN == [nan |-> TRUE]
Infinity == [inf |-> TRUE]

\* Number.parseFloat(text): blanks are skipped, a sign is read, then
\* "Infinity" or digits with an optional fraction; what follows is ignored.
parseFloat(text) ==
  LET t == TrimStart(text)
      signed == t # <<>> /\ Head(t) \in {"-", "+"}
      u == IF signed THEN Tail(t) ELSE t
      whole == DigitPrefix(u)
      rest == SubSeq(u, Len(whole) + 1, Len(u))
      fraction == IF rest # <<>> /\ Head(rest) = "."
                    THEN DigitPrefix(Tail(rest)) ELSE <<>>
      tenths == 10 * DigitsValue(whole)
                  + (IF fraction = <<>> THEN 0 ELSE DigitValue(fraction[1]))
  IN  IF u # <<>> /\ Head(u) = "Infinity" THEN Infinity
      ELSE IF whole = <<>> /\ fraction = <<>> THEN NaN
      ELSE [tenths |-> IF signed /\ Head(t) = "-" THEN 0 - tenths ELSE tenths]

\* String(rawValue ?? "") for a value that is not a number
StringOf(value) ==
  IF "text" \in DOMAIN value THEN value.text
  ELSE IF "bool" \in DOMAIN value
    THEN << IF value.bool THEN "true" ELSE "false" >>
  ELSE <<>>

\* String(payload.name ?? "").trim() || fallback
NameOr(payload, f, fallback) ==
  IF f \in DOMAIN payload /\ Trim(payload[f]) # <<>>
    THEN Trim(payload[f]) ELSE fallback

\* new Date().toISOString()
IsoNow == << "now", ToString(now) >>

\* handleReading(event) on the readings state, cancelled being false.  The
\* __simulationDisabled event it dispatches for a weighing machine has no
\* listener.
handleReading(current, payload) ==
  LET machine == NameOr(payload, "machineName", <<"-">>)
      sensor == NameOr(payload, "sensorName", <<"Sensor">>)
      rawValue == FieldOf(payload, "value")
      value == IF "tenths" \in DOMAIN rawValue \/ "inf" \in DOMAIN rawValue
                 THEN rawValue
                 ELSE parseFloat(StringOf(rawValue))
      id == machine \o <<"::">> \o sensor
      entry == [id |-> id, machineName |-> machine, sensorName |-> sensor,
                value |-> value,
                time |-> IF "time" \in DOMAIN payload /\ payload.time # <<>>
                           THEN payload.time ELSE IsoNow]
      next == <<entry>> \o SelectSeq(current, LAMBDA item : item.id # id)
  IN  IF "tenths" \notin DOMAIN value THEN current
      ELSE IF Len(next) > limit THEN SubSeq(next, 1, limit)
      ELSE next

\* A "reading" event arrives.
Reading ==
  /\ \E payload \in SensorEvents :
       /\ sensorEvent' = payload
       /\ readings' = handleReading(readings, payload)
  /\ lastOp' = "handleReading"
  /\ UNCHANGED << engineVars, modalVars, viewerVars, sceneVars, loaderVars >>

NextStream == Reading

\* The readings of a sensor stream over any sequence of events.
SpecStream == Init /\ [][NextStream]_vars

\* ------------------------------------------------------------ C38
\* The value of the event is missing or is not a finite number; a string
\* that spells a number counts as one.
NoFiniteNumber(payload) ==
  LET value == FieldOf(payload, "value")
  IN  /\ "tenths" \notin DOMAIN value
      /\ ~("text" \in DOMAIN value
           /\ Len(value.text) > 0
           /\ \A i \in 1..Len(value.text) : value.text[i] \in Digits \cup {"."})

\* C38: after every event the readings are at most `limit`, no two of them
\* have the same machineName::sensorName id, an event that is accepted is
\* the first of them, and an event whose value is missing or not a finite
\* number leaves them as they were.
C38_ReadingsBuffer ==
  [][lastOp' = "handleReading"
       => /\ Len(readings') <= limit
          /\ \A i, j \in 1..Len(readings') :
               i # j => readings'[i].id # readings'[j].id
          /\ readings' # readings
               => readings'[1].id
                    = NameOr(sensorEvent', "machineName", <<"-">>)
                        \o <<"::">>
                        \o NameOr(sensorEvent', "sensorName", <<"Sensor">>)
          /\ NoFiniteNumber(sensorEvent') => readings' = readings]_vars

\* ------------------------------------------------------------ C39
\* C39: for a machine name without alias entry whose normalized form is
\* empty, such as the "-" the sensor stream gives a reading without
\* machine name, findMatchingObject returns none.
C39_PlaceholderUnmatched ==
  (/\ matched # Unresolved
   /\ mapInfluxToModelId(machineName) = <<>>
   /\ Normalized(machineName) = <<>>)
    => matched = NoObject

\* ---------------------------------------------------------- lib/machines
\* /3d-model/modal-data.json: a payload without machines, with no machine,
\* with machines with and without a health score.
MachineFiles ==
  { [other |-> TRUE],
    [machines |-> <<>>],
    [machines |-> << [id |-> "m1"], [id |-> "m2", healthScore |-> 80] >>] }

\* The normalisation of the payload, as far as id and healthScore go.
normalizedOf(json) ==
  LET list == IF "machines" \in DOMAIN json THEN json.machines ELSE <<>>
  IN  [i \in 1..Len(list) |->
         [id |-> list[i].id,
          healthScore |-> IF "healthScore" \in DOMAIN list[i]
                            THEN list[i].healthScore ELSE 0]]

\* loadMachines(force): the cache or the shared request is returned, or a
\* fetch is started, which a non-forced call stores in loadingPromise.
LoadMachines ==
  \E force \in BOOLEAN :
    /\ IF ~force /\ machinesCache # NoCache
         THEN /\ returned' = NoPromise
              /\ UNCHANGED << loadingPromise, requests, issued >>
       ELSE IF ~force /\ loadingPromise # NoPromise
         THEN /\ returned' = loadingPromise
              /\ UNCHANGED << loadingPromise, requests, issued >>
       ELSE /\ issued < MaxRequests
            /\ issued' = issued + 1
            /\ requests' = requests \cup {[id |-> issued + 1, force |-> force]}
            /\ loadingPromise' = IF force THEN loadingPromise ELSE issued + 1
            /\ returned' = issued + 1
    /\ machinesCache' = machinesCache
    /\ lastOp' = IF force THEN "loadMachines(true)" ELSE "loadMachines(false)"
    /\ UNCHANGED << engineVars, modalVars, viewerVars, sceneVars, streamVars >>

\* The fetch of a request settles: then(response), then(json), finally.
MachinesResponse ==
  \E request \in requests, resp \in Responses(MachineFiles) :
    /\ requests' = requests \ {request}
    /\ machinesCache' = IF resp.ok THEN normalizedOf(resp.json)
                        ELSE machinesCache
    /\ loadingPromise' = NoPromise
    /\ lastOp' = IF resp.ok THEN "loadMachines.then" ELSE "loadMachines.catch"
    /\ UNCHANGED << issued, returned >>
    /\ UNCHANGED << engineVars, modalVars, viewerVars, sceneVars, streamVars >>

InvalidateMachineCache ==
  /\ machinesCache' = NoCache
  /\ lastOp' = "invalidateMachineCache"
  /\ UNCHANGED << loadingPromise, requests, issued, returned >>
  /\ UNCHANGED << engineVars, modalVars, viewerVars, sceneVars, streamVars >>

NextLoader ==
  \/ LoadMachines
  \/ MachinesResponse
  \/ InvalidateMachineCache

\* The machine metadata loader over any interleaving of calls and
\* responses.
SpecLoader == Init /\ [][NextLoader]_vars

\* ------------------------------------------------------------ C40
\* The non-forced fetches in flight.
Shared(pending) == {request \in pending : ~request.force}

\* C40: at most one non-forced fetch is in flight; a non-forced call made
\* while one is in flight and the cache is empty starts no fetch and
\* returns the one in flight; and a call made with an empty cache and no
\* non-forced fetch in flight starts a fetch.
C40_OneSharedFetch ==
  [][/\ Cardinality(Shared(requests')) <= 1
     /\ (/\ lastOp' = "loadMachines(false)"
         /\ machinesCache = NoCache
         /\ Shared(requests) # {})
          => /\ requests' = requests
             /\ \E request \in Shared(requests) : returned' = request.id
     /\ (/\ lastOp' \in {"loadMachines(false)", "loadMachines(true)"}
         /\ machinesCache = NoCache
         /\ Shared(requests) = {})
          => issued' = issued + 1]_vars

====
